---- MODULE Spec2Model ----
(***************************************************************************)
(* Model of the deduplicated issue-filing pipeline of testflight-pm:       *)
(* LinearClient.createIssueFromTestFlight and the operations it calls      *)
(* (findDuplicateIssue, addTestFlightCommentToIssue, uploadScreenshots,    *)
(* prepareIssueFromTestFlight, resolveLabelNamesToIds, convertToLinearIssue*)
(* and getTeam), run against a model of the Linear tracker.                *)
(*                                                                         *)
(* Strings whose content the code inspects (titles, descriptions, feedback *)
(* ids) are sequences of one-character strings, so that String.includes    *)
(* and the tracker's containsIgnoreCase filter are real substring searches.*)
(***************************************************************************)
EXTENDS Integers, Sequences, FiniteSets, TLC

----------------------------------------------------------------------------
(* Bounds of the model *)

\* number of createIssueFromTestFlight invocations of one run
MaxCalls == 2
\* number of issues other users of the tracker file during a run
MaxExternal == 1
\* number of images of a screenshot record
MaxImages == 1
\* images of the feedback record in the specification of the upload alone
MaxUploadImages == 2

----------------------------------------------------------------------------
(* Strings *)

Chars == {"a", "A", "x", ":", "|", "!", "*"}

\* String.prototype.toLowerCase, per character
LowerChar(c) == IF c = "A" THEN "a" ELSE c

ToLower(s) == [i \in 1..Len(s) |-> LowerChar(s[i])]

\* String.prototype.includes: x occurs in s as a contiguous substring
Includes(s, x) ==
    \E i \in 0..(Len(s) - Len(x)) : SubSeq(s, i + 1, i + Len(x)) = x

\* the tracker's containsIgnoreCase string comparator
ContainsIgnoreCase(s, x) == Includes(ToLower(s), ToLower(x))

\* "TestFlight ID: " prefix of the formatted search string
TestFlightIdPrefix == <<":">>

----------------------------------------------------------------------------
(* Configuration of the client (constructor) *)

\* config.teamId, and the team of issues that belong to somebody else
TeamId == "T"
OtherTeam == "O"

\* the duplicate check switched off
DuplicateDetectionOff == FALSE

enableDuplicateDetection == TRUE

\* maxRetries of findDuplicateIssue
maxRetries == 3

\* `first` of the filter query and of the full-text search, and of the
\* recent-issues scan
FirstFilter == 20
FirstRecent == 50

----------------------------------------------------------------------------
(* Inputs of an invocation *)

\* feedback.id: primary keys of the source system, all of one length
FeedbackIds == {<<"a">>, <<"A">>}

\* options.customTitle and options.customDescription (<<>> is absent: the
\* empty string is falsy): none; a custom title that names a feedback id with
\* a custom description that names none; a custom description that names a
\* feedback id
CustomTexts ==
    { [customTitle |-> <<>>,    customDescription |-> <<>>],
      [customTitle |-> <<"a">>, customDescription |-> <<"x">>],
      [customTitle |-> <<>>,    customDescription |-> <<"x", "a">>] }

\* feedback.screenshotData.images: fileName ("" is absent), url, cachedData
\* (set or not), and whether expiresAt has passed when the upload loop reads it
ImageRefs ==
    [fileName : {"", "f.png"}, url : {"u"}, cached : BOOLEAN, expired : BOOLEAN]

RECURSIVE SeqsUpTo(_, _)
SeqsUpTo(S, n) ==
    IF n = 0 THEN {<<>>}
    ELSE LET shorter == SeqsUpTo(S, n - 1)
         IN  shorter \cup {Append(q, x) : q \in shorter, x \in S}

ImageLists == SeqsUpTo(ImageRefs, MaxImages)

\* additionalLabels
AdditionalLabels == {<<>>, <<"UI", "Feedback">>}

\* the labels the tracker holds at the start: name, and whether the label
\* has child labels
InitialLabels ==
    << [name |-> "testflight", children |-> FALSE],
       [name |-> "Crash",      children |-> FALSE],
       [name |-> "ui",         children |-> TRUE] >>

\* issues filed in the tracker by somebody else while the client runs
\* (recent: created within the last seven days)
ExternalIssues ==
    { [team |-> TeamId,    title |-> <<"x">>, description |-> <<"|", "a">>,
       recent |-> TRUE],
      [team |-> TeamId,    title |-> <<"a">>, description |-> <<"x">>,
       recent |-> TRUE],
      [team |-> TeamId,    title |-> <<"x">>, description |-> <<"|", "a">>,
       recent |-> FALSE],
      [team |-> OtherTeam, title |-> <<"x">>, description |-> <<"|", "a">>,
       recent |-> TRUE] }

----------------------------------------------------------------------------
(* State *)

VARIABLES
    store,          \* the tracker's issues, in creation order (issue id = index)
    comments,       \* the tracker's comments: <<issue, invocation>>
    teamCache,      \* LinearClient.teamCache: "null" or the team
    calls,          \* invocations of createIssueFromTestFlight started so far
    pc,             \* position of the current invocation
    feedback,       \* its feedback record: id, type, screenshotData.images
    options,        \* its options and additionalLabels
    imgIdx,         \* uploadScreenshots: the loop index i, counted from 1
    results,        \* uploadScreenshots: results
    lastPass,       \* uploadScreenshots: the requests of the latest pass of the
                    \* loop, and where its imageData came from
    screenshotUrls, \* the links handed to prepareIssueFromTestFlight
    issueData,      \* what prepareIssueFromTestFlight returned
    labelStore,     \* the tracker's labels, in creation order (label id = index)
    labelNames,     \* resolveLabelNamesToIds: its argument
    labelAttempt,   \* resolveLabelNamesToIds: attempt
    labelSleeps,    \* resolveLabelNamesToIds: backoff delays slept so far, ms
    labelMap,       \* resolveLabelNamesToIds: labelMap, as a set of <<name, id>>
    parentLabels,   \* resolveLabelNamesToIds: parentLabels
    nameIdx,        \* resolveLabelNamesToIds: position in labelNames, from 1
    resolvedIds,    \* resolveLabelNamesToIds: resolvedIds
    uniqueLabelIds, \* the label ids handed to sdk.createIssue
    startLen,       \* Len(store) when the invocation started
    attempt,        \* findDuplicateIssue: attempt
    queried,        \* findDuplicateIssue: the searches answered in this attempt
    sleeps,         \* findDuplicateIssue: backoff delays slept so far, ms
    hit,            \* findDuplicateIssue: the confirmed node being converted
    dupResult,      \* what findDuplicateIssue gave: "pending", "null", "issue", "error"
    sdk,            \* the changing calls to the tracker the invocation issued
    outcome,        \* "none", "CREATED", "COMMENTED", "FAILED"
    returned,       \* the issue the invocation returned (0: none)
    issueCreatePayload, \* what sdk.createIssue gave: "none", "threw", "failure",
                    \* "noIssue", "issue"
    thrown,         \* the message of the error the invocation threw (<<>>: none)
    \* TestFlightClient
    now,            \* the clock, ms
    rateLimitInfo,  \* TestFlightClient.rateLimitInfo: NoRateLimit (null) or the snapshot
    apiPc,          \* position of the current makeApiRequest
    apiOptions,     \* makeApiRequest: retries, retryDelay
    apiAttempt,     \* makeApiRequest: attempt
    lastStatusCode, \* makeApiRequest: lastStatusCode (0: null)
    lastError,      \* makeApiRequest: the message of lastError (<<>>: null)
    response,       \* the answer to the latest dispatch (NoResponse: none came)
    dispatches,     \* fetches the request has dispatched
    apiSleeps,      \* backoff delays the request has slept, ms
    rateWaits,      \* rate-limit waits the request has slept
    unavailable,    \* dispatches of the request that were answered 503
    apiResult,      \* "none"; or what the request gave: data or the error thrown
    \* TestFlightClient.getEnhancedRecentFeedback
    fbPc,           \* position of the call
    appId,          \* TestFlightClient.appId ("": not configured)
    bundleId,       \* the bundleId argument ("": not given)
    since,          \* the since argument
    apps,           \* the apps of the App Store Connect account, in order
    crashItems,     \* the account's crash submissions, newest first
    shotItems,      \* the account's screenshot submissions, newest first
    appFromBundleId, \* resolveAppId: what findAppByBundleId returned (NoApp:
                    \* null, or not returned)
    bundleError,    \* resolveAppId: the bundle id validation has failed
    resolvedAppId,  \* resolvedAppId ("": not resolved)
    apiRequests,    \* the source-API requests the call has made, in order
    crashFetch,     \* the crash list fetch: "idle", "pending", "done", "failed"
    shotFetch,      \* the screenshot list fetch, likewise
    crashes,        \* the crash items that passed the date filter
    screenshots,    \* the screenshot items that passed the date filter
    processedData,  \* processedData
    itemIdx,        \* position of the running loop in its list, from 1
    current,        \* processedCrash or processedScreenshot of the item
    imageIdx,       \* position of the acquisition loop in the images, from 1
    dlAttempt,      \* downloadSingleScreenshotImage: attempt
    dlSleeps,       \* downloadSingleScreenshotImage: backoff delays slept, ms
    dlRequests,     \* downloadSingleScreenshotImage: download requests made
    dlStatuses,     \* the status of each of them, 0 where the request threw
    dlResult,       \* what the latest downloadSingleScreenshotImage returned
    fbResult,       \* what the call gave: "none", the records, or an error
    \* LinearClient.getTeam
    remoteTeam,     \* the team as the tracker holds it now
    clients,        \* LinearClient instances constructed so far
    teamGets,       \* getTeam calls made on the instance
    teamCalls,      \* sdk.team calls made by the instance
    teamVia,        \* the method that made the latest getTeam call
    teamGot,        \* what it returned: "none", "error" or the team
    firstTeam,      \* what the first getTeam that succeeded on the instance
                    \* returned ("null": none has)
    \* the list fetches of getEnhancedRecentFeedback, run concurrently
    brPc,           \* position of each branch in its makeApiRequest
    brAttempt,      \* attempt of each branch
    brWake,         \* the time at which the sleep of each branch ends
    brStatus,       \* lastStatusCode of each branch (0: null)
    brResult        \* what each branch gave: "none", "data", "error"

vars == <<store, comments, teamCache, calls, pc, feedback, options, startLen,
          attempt, queried, sleeps, hit, dupResult, sdk, outcome, returned,
          imgIdx, results, screenshotUrls, issueData, labelStore, labelNames,
          labelAttempt, labelSleeps, labelMap, parentLabels, nameIdx,
          resolvedIds, uniqueLabelIds, issueCreatePayload, thrown, lastPass,
          now, rateLimitInfo, apiPc, apiOptions, apiAttempt, lastStatusCode,
          lastError, response, dispatches, apiSleeps, rateWaits, unavailable,
          apiResult, fbPc, appId, bundleId, since, apps, crashItems,
          shotItems, appFromBundleId, bundleError, resolvedAppId, apiRequests, crashFetch,
          shotFetch, crashes, screenshots, processedData, itemIdx, current,
          imageIdx, dlAttempt, dlSleeps, dlRequests, dlStatuses, dlResult,
          fbResult, remoteTeam, clients, teamGets, teamCalls, teamVia,
          teamGot, firstTeam, brPc, brAttempt, brWake, brStatus, brResult>>

\* the variables of the phases of an invocation
detectorVars == <<attempt, queried, sleeps, hit, dupResult>>
uploadVars == <<imgIdx, results, screenshotUrls, lastPass>>
\* the variables of the LinearClient and of its tracker
linearVars == <<store, comments, teamCache, calls, pc, feedback, options,
                startLen, attempt, queried, sleeps, hit, dupResult, sdk,
                outcome, returned, imgIdx, results, screenshotUrls, issueData,
                labelStore, labelNames, labelAttempt, labelSleeps, labelMap,
                parentLabels, nameIdx, resolvedIds, uniqueLabelIds,
                issueCreatePayload, thrown, lastPass>>
\* the variables of one makeApiRequest, and those of the TestFlightClient
requestVars == <<apiPc, apiOptions, apiAttempt, lastStatusCode, lastError,
                 response, dispatches, apiSleeps, rateWaits, unavailable,
                 apiResult>>
apiVars == <<now, rateLimitInfo, requestVars>>
\* the variables of getEnhancedRecentFeedback: its inputs and the account,
\* the two list fetches, the item being processed, the download of an image
inputVars == <<appId, bundleId, since, apps, crashItems, shotItems>>
listVars == <<crashFetch, shotFetch, crashes, screenshots>>
itemVars == <<processedData, itemIdx, current>>
downloadVars ==
    <<imageIdx, dlAttempt, dlSleeps, dlRequests, dlStatuses, dlResult>>
fbVars == <<fbPc, inputVars, appFromBundleId, bundleError, resolvedAppId, apiRequests,
            listVars, itemVars, downloadVars, fbResult>>
\* the variables of getTeam, the team cache apart, and those of the
\* concurrent list fetches
teamVars == <<remoteTeam, clients, teamGets, teamCalls, teamVia, teamGot,
              firstTeam>>
branchVars == <<brPc, brAttempt, brWake, brStatus, brResult>>
callerVars == <<teamVars, branchVars>>
\* what the actions of getEnhancedRecentFeedback leave alone
otherVars == <<linearVars, rateLimitInfo, requestVars, callerVars>>
\* the variables of the LinearClient and of its tracker, the team cache apart
invocationVars == <<store, comments, calls, pc, feedback, options, startLen,
                    attempt, queried, sleeps, hit, dupResult, sdk, outcome,
                    returned, imgIdx, results, screenshotUrls, issueData,
                    labelStore, labelNames, labelAttempt, labelSleeps,
                    labelMap, parentLabels, nameIdx, resolvedIds,
                    uniqueLabelIds, issueCreatePayload, thrown, lastPass>>
labelVars == <<labelNames, labelAttempt, labelSleeps, labelMap, parentLabels,
               nameIdx, resolvedIds, uniqueLabelIds>>

NoFeedback == [id |-> <<>>, type |-> "unread", images |-> <<>>]
NoOptions == [customTitle |-> <<>>, customDescription |-> <<>>,
              additionalLabels |-> <<>>]
NoResults == [uploaded |-> 0, failed |-> 0, urls |-> <<>>]
NoPass == [calls |-> {}, data |-> "none"]
NoApiOptions == [retries |-> 0, retryDelay |-> 0]
NoApiResult == [kind |-> "none", message |-> <<>>]
NoRateLimit == [set |-> FALSE, remaining |-> 0, reset |-> 0, limit |-> 0]

\* response.headers.get(...) of a header the response does not carry: null
NullHeader == 0 - 1
NoHeaders ==
    [remaining |-> NullHeader, reset |-> NullHeader, limit |-> NullHeader]
NoResponse == [status |-> 0, rate |-> NoHeaders, body |-> [kind |-> "none", errors |-> <<>>]]
\* a Date: the time value in ms, or an Invalid Date
Date(t) == [valid |-> TRUE, time |-> t]
InvalidDate == [valid |-> FALSE, time |-> 0]
NoRecord == [id |-> "", type |-> "none", submittedAt |-> InvalidDate,
             detailed |-> FALSE, logs |-> FALSE, images |-> <<>>]
NoFbResult == [kind |-> "none", records |-> <<>>, error |-> ""]
NoApp == [id |-> "", bundleId |-> ""]
NoIssueData == [title |-> <<>>, description |-> <<>>]

\* the calls that change the tracker: the SDK's mutations and the PUT of
\* image bytes to the tracker's upload url
TrackerCalls ==
    {"createComment", "fileUpload", "PUT", "createIssueLabel", "createIssue"}

\* the issue as the tracker holds it; origin and fid record which invocation
\* created it and for which feedback id (0 and <<>>: somebody else)
Issue(team, title, description, recent, origin, fid) ==
    [team |-> team, title |-> title, description |-> description,
     recent |-> recent, origin |-> origin, fid |-> fid]

\* a client that runs no invocation, over a tracker that holds no issue
IdleClient ==
    /\ store = <<>>
    /\ comments = {}
    /\ teamCache = "null"
    /\ pc = "idle"
    /\ feedback = NoFeedback
    /\ options = NoOptions
    /\ startLen = 0
    /\ attempt = 0
    /\ queried = <<>>
    /\ sleeps = <<>>
    /\ hit = 0
    /\ dupResult = "pending"
    /\ sdk = {}
    /\ outcome = "none"
    /\ returned = 0
    /\ imgIdx = 1
    /\ results = NoResults
    /\ lastPass = NoPass
    /\ screenshotUrls = <<>>
    /\ issueData = NoIssueData
    /\ labelStore = InitialLabels
    /\ labelNames = <<>>
    /\ labelAttempt = 0
    /\ labelSleeps = <<>>
    /\ labelMap = {}
    /\ parentLabels = {}
    /\ nameIdx = 1
    /\ resolvedIds = <<>>
    /\ uniqueLabelIds = <<>>
    /\ issueCreatePayload = "none"
    /\ thrown = <<>>

\* no makeApiRequest is running
IdleRequest ==
    /\ apiPc = "idle"
    /\ apiOptions = NoApiOptions
    /\ apiAttempt = 0
    /\ lastStatusCode = 0
    /\ lastError = <<>>
    /\ response = NoResponse
    /\ dispatches = 0
    /\ apiSleeps = <<>>
    /\ rateWaits = 0
    /\ unavailable = 0
    /\ apiResult = NoApiResult

\* no getEnhancedRecentFeedback is running
IdleCall ==
    /\ fbPc = "idle"
    /\ appFromBundleId = NoApp
    /\ bundleError = FALSE
    /\ resolvedAppId = ""
    /\ apiRequests = <<>>
    /\ crashFetch = "idle"
    /\ shotFetch = "idle"
    /\ crashes = <<>>
    /\ screenshots = <<>>
    /\ processedData = <<>>
    /\ itemIdx = 1
    /\ current = NoRecord
    /\ imageIdx = 1
    /\ dlAttempt = 0
    /\ dlSleeps = <<>>
    /\ dlRequests = 0
    /\ dlStatuses = <<>>
    /\ dlResult = "none"
    /\ fbResult = NoFbResult

\* a TestFlightClient without app id, asked nothing, over an empty account
IdleFeedback ==
    /\ appId = ""
    /\ bundleId = ""
    /\ since = Date(0)
    /\ apps = <<>>
    /\ crashItems = <<>>
    /\ shotItems = <<>>
    /\ IdleCall

\* a TestFlightClient that has made no request

\* the two list fetches of getEnhancedRecentFeedback
Branches == {"crashList", "shotList"}

\* no getTeam call was made yet, and no list fetch runs
IdleCallers ==
    /\ remoteTeam = TeamId
    /\ clients = 1
    /\ teamGets = 0
    /\ teamCalls = 0
    /\ teamVia = "none"
    /\ teamGot = "none"
    /\ firstTeam = "null"
    /\ brPc = [b \in Branches |-> "idle"]
    /\ brAttempt = [b \in Branches |-> 0]
    /\ brWake = [b \in Branches |-> 0]
    /\ brStatus = [b \in Branches |-> 0]
    /\ brResult = [b \in Branches |-> "none"]

IdleApi ==
    /\ now = 0
    /\ rateLimitInfo = NoRateLimit
    /\ IdleRequest

Init ==
    /\ IdleClient
    /\ calls = 0
    /\ IdleApi
    /\ IdleFeedback
    /\ IdleCallers

\* the client before its last invocation, the earlier ones having failed in
\* the duplicate check
LastCallInit ==
    /\ IdleClient
    /\ calls = MaxCalls - 1
    /\ IdleApi
    /\ IdleFeedback
    /\ IdleCallers

----------------------------------------------------------------------------
(* The tracker *)

IssueIds == DOMAIN store

\* a page of at most `first` of the matching issues, in the tracker's order
Pages(matching, first) ==
    IF Cardinality(matching) <= first
    THEN {matching}
    ELSE {S \in SUBSET matching : Cardinality(S) = first}

\* Somebody else files an issue. The client sees the tracker's issues only
\* through the three searches, so it is enough to let issues appear between
\* invocations and before each search.
ExternalCreate ==
    /\ pc \in {"idle", "tier1", "tier2", "tier3"}
    /\ Cardinality({i \in IssueIds : store[i].origin = 0}) < MaxExternal
    /\ \E e \in ExternalIssues :
          store' = Append(store,
                          Issue(e.team, e.title, e.description, e.recent, 0, <<>>))
    /\ UNCHANGED <<comments, teamCache, calls, pc, feedback, options, startLen,
                   detectorVars, sdk, outcome, returned, uploadVars,
                   issueData, labelStore, labelVars>>
    /\ UNCHANGED <<issueCreatePayload, thrown>>
    /\ UNCHANGED <<apiVars, fbVars, callerVars>>

----------------------------------------------------------------------------
(* createIssueFromTestFlight: entry *)

StartCall ==
    /\ pc = "idle"
    /\ calls < MaxCalls
    /\ calls' = calls + 1
    /\ \E id \in FeedbackIds : feedback' = [NoFeedback EXCEPT !.id = id]
    /\ startLen' = Len(store)
    /\ IF enableDuplicateDetection
       THEN pc' = "tier1" /\ attempt' = 1
       ELSE pc' = "upload" /\ attempt' = 0
    /\ UNCHANGED <<store, comments, teamCache, options, queried, sleeps, hit,
                   dupResult, sdk, outcome, returned, uploadVars, issueData,
                   labelStore, labelVars>>
    /\ UNCHANGED <<issueCreatePayload, thrown>>
    /\ UNCHANGED <<apiVars, fbVars, callerVars>>

\* Error messages, as sequences of pieces of text
\* `${error}` of an Error object
ErrorString(msg) == <<"Error: ">> \o msg

\* the message of an error that a remote call threw
RemoteError == <<"E">>

CreateFailedText == <<"Linear API error: Failed to create issue">>
NoIssueText == <<"Failed to retrieve created issue from Linear">>
CommentFailedText == <<"Linear API error: Failed to create comment">>
NoCommentText == <<"Failed to retrieve created comment from Linear">>

\* the catch of getTeam
WrapTeam(msg) == <<"Failed to get Linear team: ">> \o ErrorString(msg)

\* the catch of addCommentToIssue
WrapComment(msg) == <<"Failed to add comment to Linear issue: ">> \o ErrorString(msg)

\* the throw after the loop of findDuplicateIssue
WrapCheck(msg) ==
    <<"Failed to check for duplicate Linear issues: ">> \o msg
    \o <<". Cannot safely proceed without duplicate check.">>

\* the throw of catch (dupError)
WrapDup(msg) ==
    <<"Cannot create Linear issue: duplicate detection failed. ">> \o msg

\* WrapCreate with the caught error left out of the message
WrapCreateBare(msg) ==
    <<"Failed to create Linear issue from TestFlight feedback: ">>

\* the throw of the outer catch of createIssueFromTestFlight
WrapCreate(msg) ==
    <<"Failed to create Linear issue from TestFlight feedback: ">>
    \o ErrorString(msg)

\* the outer catch of createIssueFromTestFlight: log, wrap and rethrow
Fail ==
    /\ outcome' = "FAILED"
    /\ returned' = 0
    /\ pc' = "done"

\* an error with message msg reaches the outer catch
Throw(msg) ==
    /\ Fail
    /\ thrown' = WrapCreate(msg)

----------------------------------------------------------------------------
(* findDuplicateIssue *)

\* description?.includes(feedback.id)
Confirmed(issue, fid) == Includes(issue.description, fid)

\* Tier1Filter with the two description clauses left out
Tier1FilterTitleOnly(issue, fid) ==
    /\ issue.team = TeamId
    /\ ContainsIgnoreCase(issue.title, fid)

\* the filter of strategy 1
Tier1Filter(issue, fid) ==
    /\ issue.team = TeamId
    /\ \/ ContainsIgnoreCase(issue.title, fid)
       \/ ContainsIgnoreCase(issue.description, TestFlightIdPrefix \o fid)
       \/ ContainsIgnoreCase(issue.description, fid)

\* Tier2Confirmed with the team check left out
Tier2ConfirmedAnyTeam(issue, fid) == Confirmed(issue, fid)

\* the re-check of a node of strategy 2: team, then description
Tier2Confirmed(issue, fid) ==
    /\ issue.team = TeamId
    /\ Confirmed(issue, fid)

\* the filter of strategy 3
Tier3Filter(issue) ==
    /\ issue.team = TeamId
    /\ issue.recent

\* BackoffDelay with the exponent counted from zero: 1s, 2s
BackoffDelayFromZero(a) == (2 ^ (a - 1)) * 1000

\* Math.pow(2, attempt) * 1000
BackoffDelay(a) == (2 ^ a) * 1000

\* DetectorCatch without the bound on the attempts: every failure is retried
DetectorCatchUnbounded ==
    /\ hit' = 0
    /\ queried' = <<>>
    /\ sleeps' = Append(sleeps, BackoffDelay(attempt))
    /\ attempt' = attempt + 1
    /\ pc' = "tier1"
    /\ UNCHANGED dupResult

\* the catch block of an attempt, and the throw after the loop
DetectorCatch ==
    /\ hit' = 0
    /\ queried' = <<>>
    /\ IF attempt < maxRetries
       THEN /\ sleeps' = Append(sleeps, BackoffDelay(attempt))
            /\ attempt' = attempt + 1
            /\ pc' = "tier1"
            /\ UNCHANGED dupResult
       ELSE /\ dupResult' = "error"
            /\ pc' = "dupError"
            /\ UNCHANGED <<sleeps, attempt>>

\* ReturnNull with an empty result handled like an error: back off and retry
ReturnNullRetried ==
    IF attempt < maxRetries
    THEN /\ sleeps' = Append(sleeps, BackoffDelay(attempt))
         /\ attempt' = attempt + 1
         /\ pc' = "tier1"
         /\ UNCHANGED dupResult
    ELSE /\ dupResult' = "null"
         /\ pc' = "upload"
         /\ UNCHANGED <<attempt, sleeps>>

\* "No duplicate found after all strategies": return null to the orchestrator,
\* which goes on to the screenshots
ReturnNull ==
    /\ dupResult' = "null"
    /\ pc' = "upload"
    /\ UNCHANGED <<attempt, sleeps>>

\* NextStrategy with the full-text search skipped
NextStrategySkipSearch(tier) ==
    IF tier = 1 THEN pc' = "tier3" /\ UNCHANGED <<attempt, sleeps, dupResult>>
    ELSE IF tier = 2 THEN pc' = "tier3" /\ UNCHANGED <<attempt, sleeps, dupResult>>
    ELSE ReturnNull

\* no node of the response was confirmed: go on with the next strategy
NextStrategy(tier) ==
    IF tier = 1 THEN pc' = "tier2" /\ UNCHANGED <<attempt, sleeps, dupResult>>
    ELSE IF tier = 2 THEN pc' = "tier3" /\ UNCHANGED <<attempt, sleeps, dupResult>>
    ELSE ReturnNull

\* the loop over the nodes of a response: the first node that is confirmed
\* is converted and returned, and with no such node the next strategy runs
ScanNodes(tier, confirmed) ==
    /\ queried' = Append(queried, [tier |-> tier, confirmed |-> confirmed # {}])
    /\ IF confirmed # {}
       THEN /\ \E h \in confirmed : hit' = h
            /\ pc' = "convert"
            /\ UNCHANGED <<attempt, sleeps, dupResult>>
       ELSE /\ hit' = 0
            /\ NextStrategy(tier)

\* strategy 1: sdk.issues with the filter on team, title and description
Tier1 ==
    /\ pc = "tier1"
    /\ \/ DetectorCatch
       \/ \E nodes \in Pages({i \in IssueIds : Tier1Filter(store[i], feedback.id)},
                             FirstFilter) :
             ScanNodes(1, {i \in nodes : Confirmed(store[i], feedback.id)})
    /\ UNCHANGED <<store, comments, teamCache, calls, feedback, options,
                   startLen, sdk, outcome, returned, uploadVars, issueData,
                   labelStore, labelVars>>
    /\ UNCHANGED <<issueCreatePayload, thrown>>
    /\ UNCHANGED <<apiVars, fbVars, callerVars>>

\* strategy 2: sdk.searchIssues, whose index may lag or match broadly
Tier2 ==
    /\ pc = "tier2"
    /\ \/ DetectorCatch
       \/ \E nodes \in SUBSET IssueIds :
             /\ Cardinality(nodes) <= FirstFilter
             /\ ScanNodes(2, {i \in nodes : Tier2Confirmed(store[i], feedback.id)})
    /\ UNCHANGED <<store, comments, teamCache, calls, feedback, options,
                   startLen, sdk, outcome, returned, uploadVars, issueData,
                   labelStore, labelVars>>
    /\ UNCHANGED <<issueCreatePayload, thrown>>
    /\ UNCHANGED <<apiVars, fbVars, callerVars>>

\* strategy 3: sdk.issues on the team's issues of the last seven days
Tier3 ==
    /\ pc = "tier3"
    /\ \/ DetectorCatch
       \/ \E nodes \in Pages({i \in IssueIds : Tier3Filter(store[i])}, FirstRecent) :
             ScanNodes(3, {i \in nodes : Confirmed(store[i], feedback.id)})
    /\ UNCHANGED <<store, comments, teamCache, calls, feedback, options,
                   startLen, sdk, outcome, returned, uploadVars, issueData,
                   labelStore, labelVars>>
    /\ UNCHANGED <<issueCreatePayload, thrown>>
    /\ UNCHANGED <<apiVars, fbVars, callerVars>>

----------------------------------------------------------------------------
(* getTeam and convertToLinearIssue *)

\* The ways a convertToLinearIssue can end: getTeam first (sdk.team only with
\* an empty cache; a failure leaves the cache as it was), then the lazy
\* fetches of state, assignee and creator, any of which may throw.
ConvertResults ==
    {[ok |-> TRUE, cache |-> TeamId],
     [ok |-> FALSE, cache |-> teamCache],
     [ok |-> FALSE, cache |-> TeamId]}

\* the message of the error of a failed conversion: of getTeam if the cache
\* is still empty, else of a lazy fetch
ConvertError(r) ==
    IF r.cache = "null" THEN WrapTeam(RemoteError) ELSE RemoteError

\* `return await this.convertToLinearIssue(issue)` on a confirmed node
Convert ==
    /\ pc = "convert"
    /\ \E r \in ConvertResults :
          /\ teamCache' = r.cache
          /\ IF r.ok
             THEN /\ dupResult' = "issue"
                  /\ pc' = "comment"
                  /\ UNCHANGED <<attempt, queried, sleeps, hit>>
             ELSE DetectorCatch
    /\ UNCHANGED <<store, comments, calls, feedback, options, startLen, sdk,
                   outcome, returned, uploadVars, issueData, labelStore,
                   labelVars>>
    /\ UNCHANGED <<issueCreatePayload, thrown>>
    /\ UNCHANGED <<apiVars, fbVars, callerVars>>

----------------------------------------------------------------------------
(* createIssueFromTestFlight: the duplicate check *)

\* DupError failing open: the error is logged and the issue is created anyway
DupErrorFailOpen ==
    /\ pc = "dupError"
    /\ pc' = "upload"
    /\ UNCHANGED <<store, comments, teamCache, calls, feedback, options,
                   startLen, detectorVars, sdk, outcome, returned, uploadVars,
                   issueData, labelStore, labelVars>>
    /\ UNCHANGED <<issueCreatePayload, thrown>>
    /\ UNCHANGED <<apiVars, fbVars, callerVars>>

\* catch (dupError): refuse to create, throw
DupError ==
    /\ pc = "dupError"
    /\ Throw(WrapDup(WrapCheck(RemoteError)))
    /\ UNCHANGED <<store, comments, teamCache, calls, feedback, options,
                   startLen, detectorVars, sdk, uploadVars, issueData,
                   labelStore, labelVars, issueCreatePayload>>
    /\ UNCHANGED <<apiVars, fbVars, callerVars>>

\* a failed comment falls through to the creation of a new issue
CommentFallThrough ==
    /\ pc = "comment"
    /\ sdk' = sdk \cup {"createComment"}
    /\ \/ /\ pc' = "upload"
          /\ UNCHANGED <<comments, teamCache, outcome, returned, thrown>>
       \/ /\ comments' = comments \cup {<<hit, calls>>}
          /\ outcome' = "COMMENTED"
          /\ returned' = hit
          /\ pc' = "done"
          /\ UNCHANGED <<teamCache, thrown>>
    /\ UNCHANGED <<store, calls, feedback, options, startLen, detectorVars,
                   uploadVars, issueData, labelStore, labelVars,
                   issueCreatePayload>>
    /\ UNCHANGED <<apiVars, fbVars, callerVars>>

\* addTestFlightCommentToIssue(duplicateIssue.id, feedback), then
\* `return duplicateIssue`; an error of the comment is caught by the same
\* catch (dupError)
Comment ==
    /\ pc = "comment"
    /\ sdk' = sdk \cup {"createComment"}
    /\ \/ \* createComment throws, reports failure or gives no comment
          /\ \E msg \in {RemoteError, CommentFailedText, NoCommentText} :
                Throw(WrapDup(WrapComment(msg)))
          /\ UNCHANGED <<comments, teamCache>>
       \/ \* the comment is stored; building the LinearComment may still fail
          /\ comments' = comments \cup {<<hit, calls>>}
          /\ \E r \in ConvertResults :
                /\ teamCache' = r.cache
                /\ IF r.ok
                   THEN /\ outcome' = "COMMENTED"
                        /\ returned' = hit
                        /\ pc' = "done"
                        /\ UNCHANGED thrown
                   ELSE Throw(WrapDup(WrapComment(ConvertError(r))))
    /\ UNCHANGED <<store, calls, feedback, options, startLen, detectorVars,
                   uploadVars, issueData, labelStore, labelVars,
                   issueCreatePayload>>
    /\ UNCHANGED <<apiVars, fbVars, callerVars>>

----------------------------------------------------------------------------
(* uploadScreenshots, and the fallback of createIssueFromTestFlight *)

\* The record's type and images are fixed when the invocation starts, but
\* nothing reads them before this point, so they are drawn here. The locals
\* of findDuplicateIssue are gone; its result stays.
ReadScreenshotData ==
    /\ pc = "upload"
    /\ feedback.type = "unread"
    /\ \E type \in {"crash", "screenshot"}, images \in ImageLists :
          /\ type = "crash" => images = <<>>
          /\ feedback' = [feedback EXCEPT !.type = type, !.images = images]
    /\ attempt' = 0
    /\ queried' = <<>>
    /\ sleeps' = <<>>
    /\ hit' = 0
    /\ UNCHANGED <<store, comments, teamCache, calls, pc, options, startLen,
                   dupResult, sdk, outcome, returned, uploadVars,
                   issueData, labelStore, labelVars>>
    /\ UNCHANGED <<issueCreatePayload, thrown>>
    /\ UNCHANGED <<apiVars, fbVars, callerVars>>

\* imageInfo.fileName || `screenshot_${i}.png` (i is zero-based in the code)
UploadFileName(img, i) ==
    IF img.fileName # "" THEN <<img.fileName, 0>> ELSE <<"screenshot_%.png", i - 1>>

\* img.fileName || 'screenshot.png'
FallbackFileName(img) ==
    IF img.fileName # "" THEN <<img.fileName, 0>> ELSE <<"screenshot.png", 0>>

\* UploadOutcomes with expiresAt read before cachedData
UploadOutcomesExpiryFirst(img) ==
    IF img.expired
    THEN {[ok |-> FALSE, calls |-> {}, data |-> "none"]}
    ELSE LET acquired == IF img.cached THEN {} ELSE {"GET"}
             data     == IF img.cached THEN "cachedData" ELSE "downloaded"
         IN  {[ok |-> FALSE, calls |-> acquired \cup {"fileUpload"}, data |-> data],
              [ok |-> FALSE, calls |-> acquired \cup {"fileUpload", "PUT"}, data |-> data],
              [ok |-> TRUE,  calls |-> acquired \cup {"fileUpload", "PUT"}, data |-> data]}

\* The ways one pass of the loop body can end, with the calls it made and the
\* source of imageData: the bytes are cachedData, or come from a GET of the
\* url, which is skipped if the url has expired; then sdk.fileUpload, then
\* the PUT to the upload url.
UploadOutcomes(img) ==
    LET acquired == IF img.cached THEN {} ELSE {"GET"}
        data     == IF img.cached THEN "cachedData" ELSE "downloaded"
        early    == IF img.cached THEN {}
                    ELSE IF img.expired
                    THEN {[ok |-> FALSE, calls |-> {}, data |-> "none"]}
                    ELSE {[ok |-> FALSE, calls |-> {"GET"}, data |-> "none"]}
        later    == IF ~img.cached /\ img.expired THEN {}
                    ELSE {[ok |-> FALSE, calls |-> acquired \cup {"fileUpload"},
                           data |-> data],
                          [ok |-> FALSE, calls |-> acquired \cup {"fileUpload", "PUT"},
                           data |-> data],
                          [ok |-> TRUE,  calls |-> acquired \cup {"fileUpload", "PUT"},
                           data |-> data]}
    IN  early \cup later

\* one pass of the loop of uploadScreenshots
UploadImage ==
    /\ pc = "upload"
    /\ feedback.type # "unread"
    /\ imgIdx <= Len(feedback.images)
    /\ LET img == feedback.images[imgIdx]
       IN  \E o \in UploadOutcomes(img) :
              /\ sdk' = sdk \cup (o.calls \cap TrackerCalls)
              /\ lastPass' = [calls |-> o.calls, data |-> o.data]
              /\ results' =
                    IF o.ok
                    THEN [results EXCEPT
                            !.uploaded = @ + 1,
                            !.urls = Append(@, [filename |-> UploadFileName(img, imgIdx),
                                                url |-> <<"asset", imgIdx>>])]
                    ELSE [results EXCEPT !.failed = @ + 1]
    /\ imgIdx' = imgIdx + 1
    /\ UNCHANGED <<store, comments, teamCache, calls, pc, feedback, options,
                   startLen, detectorVars, outcome, returned, screenshotUrls,
                   issueData, labelStore, labelVars>>
    /\ UNCHANGED <<issueCreatePayload, thrown>>
    /\ UNCHANGED <<apiVars, fbVars, callerVars>>

\* the entries the fallback loop pushes for images[k..], given the file names
\* of the uploaded ones
RECURSIVE AppleFallback(_, _, _)
AppleFallback(images, k, uploadedFilenames) ==
    IF k > Len(images) THEN <<>>
    ELSE LET filename == FallbackFileName(images[k])
             rest == AppleFallback(images, k + 1, uploadedFilenames)
         IN  IF filename \notin uploadedFilenames /\ images[k].url # ""
             THEN <<[filename |-> filename, url |-> <<"apple", k>>]>> \o rest
             ELSE rest

\* screenshotUrls after the upload: uploadResult.urls, and if some upload
\* failed the Apple URLs "for the missing ones"
WithFallback(res, images) ==
    IF res.failed > 0
    THEN res.urls \o
         AppleFallback(images, 1, {res.urls[k].filename : k \in DOMAIN res.urls})
    ELSE res.urls

----------------------------------------------------------------------------
(* prepareIssueFromTestFlight *)

\* the "Screenshots" section of a description, which embeds the links
ShotsText(urls) == <<"!">>

\* generateStandardDescription: the metadata table with the TestFlight ID, the
\* sections of the record, the screenshots, and the footer with the ID
StandardDescription(fb, urls) ==
    <<"|">> \o fb.id
    \o (IF fb.type = "screenshot" /\ (Len(urls) > 0 \/ Len(fb.images) > 0)
        THEN IF Len(urls) > 0 THEN ShotsText(urls) ELSE <<"*">>
        ELSE <<>>)
    \o <<"|">> \o fb.id

\* options.customDescription with the screenshots appended
CustomDescription(custom, urls) ==
    IF Len(urls) > 0 THEN custom \o ShotsText(urls) ELSE custom

\* the description of prepareIssueFromTestFlight
Description(fb, opts, urls) ==
    IF opts.customDescription # <<>>
    THEN CustomDescription(opts.customDescription, urls)
    ELSE StandardDescription(fb, urls)

\* the title: options.customTitle, or the standard title made of the type,
\* the version and the build with the exception type or the feedback text
Title(fb, opts) ==
    IF opts.customTitle # <<>> THEN opts.customTitle ELSE <<"x">>

\* DEFAULT_LABEL_CONFIG
defaultLabels == <<"testflight">>
crashLabels == <<"crash">>
feedbackLabels == <<"feedback">>

\* allLabels
AllLabels(fb, opts) ==
    defaultLabels
    \o (IF fb.type = "crash" THEN crashLabels ELSE feedbackLabels)
    \o opts.additionalLabels

\* String.prototype.toLowerCase on a label name
LowerName(n) ==
    CASE n = "UI" -> "ui"
      [] n = "Crash" -> "crash"
      [] n = "Feedback" -> "feedback"
      [] OTHER -> n

\* [...new Set(xs)]: the first occurrence of each element, in order
RECURSIVE Dedupe(_)
Dedupe(xs) ==
    IF xs = <<>> THEN <<>>
    ELSE LET front == Dedupe(SubSeq(xs, 1, Len(xs) - 1))
             last  == xs[Len(xs)]
         IN  IF \E k \in DOMAIN front : front[k] = last
             THEN front
             ELSE Append(front, last)

\* UniqueLabelNames with the names lowercased and every entry kept
LoweredLabelNames(labels) ==
    [k \in DOMAIN labels |-> LowerName(labels[k])]

\* uniqueLabelNames
UniqueLabelNames(labels) ==
    Dedupe([k \in DOMAIN labels |-> LowerName(labels[k])])

\* the end of the screenshot block: screenshotUrls is complete
Screenshots ==
    /\ pc = "upload"
    /\ feedback.type # "unread"
    /\ imgIdx > Len(feedback.images)
    /\ screenshotUrls' = WithFallback(results, feedback.images)
    /\ lastPass' = NoPass
    /\ pc' = "prepare"
    /\ UNCHANGED <<store, comments, teamCache, calls, feedback, options,
                   startLen, detectorVars, sdk, outcome, returned, imgIdx,
                   results, issueData, labelStore, labelVars>>
    /\ UNCHANGED <<issueCreatePayload, thrown>>
    /\ UNCHANGED <<apiVars, fbVars, callerVars>>

\* prepareIssueFromTestFlight and the call of resolveLabelNamesToIds. The
\* options are fixed when the invocation starts, but nothing reads them before
\* this point, so they are drawn here. Nothing reads the images, the upload
\* results or the links after it, so they are dropped from the state.
Prepare ==
    /\ pc = "prepare"
    /\ \E c \in CustomTexts, l \in AdditionalLabels :
          LET opts == [customTitle |-> c.customTitle,
                       customDescription |-> c.customDescription,
                       additionalLabels |-> l]
              names == UniqueLabelNames(AllLabels(feedback, opts))
          IN  /\ options' = opts
              /\ issueData' = [title |-> Title(feedback, opts),
                               description |-> Description(feedback, opts,
                                                           screenshotUrls)]
              /\ labelNames' = names
              /\ IF names = <<>>
                 THEN pc' = "resolved" /\ labelAttempt' = 0
                 ELSE pc' = "listLabels" /\ labelAttempt' = 1
    /\ feedback' = [feedback EXCEPT !.images = <<>>]
    /\ imgIdx' = 1
    /\ results' = NoResults
    /\ screenshotUrls' = <<>>
    /\ UNCHANGED <<store, comments, teamCache, calls, startLen, detectorVars,
                   sdk, outcome, returned, labelStore, labelSleeps, labelMap,
                   parentLabels, nameIdx, resolvedIds, uniqueLabelIds>>
    /\ UNCHANGED <<issueCreatePayload, thrown, lastPass>>
    /\ UNCHANGED <<apiVars, fbVars, callerVars>>

----------------------------------------------------------------------------
(* resolveLabelNamesToIds *)

\* maxRetries of resolveLabelNamesToIds
labelMaxRetries == 3

\* `first` of sdk.issueLabels
FirstLabels == 250

knownGroupLabels == {"feedback", "bug", "feature", "improvement", "platform"}

LabelIds == DOMAIN labelStore

\* LabelCatch with the next attempt started at once, without the backoff
LabelCatchNoSleep ==
    /\ labelMap' = {}
    /\ parentLabels' = {}
    /\ nameIdx' = 1
    /\ resolvedIds' = <<>>
    /\ IF labelAttempt < labelMaxRetries
       THEN /\ labelAttempt' = labelAttempt + 1
            /\ pc' = "listLabels"
            /\ UNCHANGED labelSleeps
       ELSE /\ pc' = "resolved"
            /\ UNCHANGED <<labelSleeps, labelAttempt>>

\* the catch block of an attempt, and the `return []` after the loop
LabelCatch ==
    /\ labelMap' = {}
    /\ parentLabels' = {}
    /\ nameIdx' = 1
    /\ resolvedIds' = <<>>
    /\ IF labelAttempt < labelMaxRetries
       THEN /\ labelSleeps' = Append(labelSleeps, BackoffDelay(labelAttempt))
            /\ labelAttempt' = labelAttempt + 1
            /\ pc' = "listLabels"
       ELSE /\ pc' = "resolved"
            /\ UNCHANGED <<labelSleeps, labelAttempt>>

\* labelMap after the loop over the listed labels: of the labels of one name
\* the one listed last stays
MapOf(mapped) ==
    {<<LowerName(labelStore[i].name), i>> : i \in
        {i \in mapped : \A j \in mapped :
            LowerName(labelStore[j].name) = LowerName(labelStore[i].name) => j <= i}}

\* the start of an attempt: sdk.issueLabels, then the loop that sorts the
\* labels into parentLabels and labelMap; a label whose children cannot be
\* fetched is put into labelMap
ListLabels ==
    /\ pc = "listLabels"
    /\ \/ /\ LabelCatch
          /\ UNCHANGED <<labelNames, uniqueLabelIds>>
       \/ \E nodes \in Pages(LabelIds, FirstLabels) :
          \E unfetched \in SUBSET {i \in nodes : labelStore[i].children} :
             LET known == {i \in nodes :
                              LowerName(labelStore[i].name) \in knownGroupLabels}
                 parents == known \cup
                            {i \in nodes : labelStore[i].children /\ i \notin unfetched}
             IN  /\ parentLabels' = {LowerName(labelStore[i].name) : i \in parents}
                 /\ labelMap' = MapOf(nodes \ parents)
                 /\ nameIdx' = 1
                 /\ resolvedIds' = <<>>
                 /\ pc' = "resolveName"
                 /\ UNCHANGED <<labelNames, labelAttempt, labelSleeps,
                                uniqueLabelIds>>
    /\ UNCHANGED <<store, comments, teamCache, calls, feedback, options,
                   startLen, detectorVars, sdk, outcome, returned, uploadVars,
                   issueData, labelStore>>
    /\ UNCHANGED <<issueCreatePayload, thrown>>
    /\ UNCHANGED <<apiVars, fbVars, callerVars>>

\* resolvedIds.push(id) unless alreadyResolved has it
Push(ids, id) ==
    IF \E k \in DOMAIN ids : ids[k] = id THEN ids ELSE Append(ids, id)

\* the end of one pass of the loop over labelNames
NextName ==
    /\ nameIdx' = nameIdx + 1
    /\ pc' = IF nameIdx = Len(labelNames) THEN "resolved" ELSE "resolveName"
    /\ UNCHANGED <<labelNames, labelAttempt, labelSleeps, labelMap, parentLabels,
                   uniqueLabelIds>>

\* one pass of the loop over labelNames
ResolveName ==
    /\ pc = "resolveName"
    /\ nameIdx <= Len(labelNames)
    /\ LET name == labelNames[nameIdx]
           normalizedName == LowerName(name)
           mappedIds == {m[2] : m \in {m \in labelMap : m[1] = normalizedName}}
       IN  IF normalizedName \in parentLabels
           THEN \* a parent/group label: skipped
                /\ NextName
                /\ UNCHANGED <<resolvedIds, labelStore, sdk>>
           ELSE IF mappedIds # {}
           THEN /\ \E id \in mappedIds : resolvedIds' = Push(resolvedIds, id)
                /\ NextName
                /\ UNCHANGED <<labelStore, sdk>>
           ELSE \* sdk.createIssueLabel
                /\ sdk' = sdk \cup {"createIssueLabel"}
                /\ \/ \* created, and the new label is returned
                      /\ labelStore' = Append(labelStore,
                                              [name |-> name, children |-> FALSE])
                      /\ resolvedIds' = Push(resolvedIds, Len(labelStore) + 1)
                      /\ NextName
                   \/ \* not created (success false, or an error that is no
                      \* duplicate), or created with no label returned
                      /\ \/ UNCHANGED labelStore
                         \/ labelStore' = Append(labelStore,
                                                 [name |-> name, children |-> FALSE])
                      /\ UNCHANGED resolvedIds
                      /\ NextName
                   \/ \* "Duplicate label name": list the labels again and take
                      \* the first of that name not yet resolved
                      /\ UNCHANGED labelStore
                      /\ \/ /\ LabelCatch
                            /\ UNCHANGED <<labelNames, uniqueLabelIds>>
                         \/ \E nodes \in Pages(LabelIds, FirstLabels) :
                               LET same == {i \in nodes :
                                              /\ LowerName(labelStore[i].name) = normalizedName
                                              /\ \A k \in DOMAIN resolvedIds :
                                                    resolvedIds[k] # i}
                               IN  /\ resolvedIds' =
                                        IF same = {} THEN resolvedIds
                                        ELSE Append(resolvedIds,
                                                    CHOOSE i \in same :
                                                       \A j \in same : i <= j)
                                   /\ NextName
    /\ UNCHANGED <<store, comments, teamCache, calls, feedback, options,
                   startLen, detectorVars, outcome, returned, uploadVars,
                   issueData>>
    /\ UNCHANGED <<issueCreatePayload, thrown>>
    /\ UNCHANGED <<apiVars, fbVars, callerVars>>

\* resolveLabelNamesToIds has returned labelIds; its locals are gone
Resolved ==
    /\ pc = "resolved"
    /\ uniqueLabelIds' = Dedupe(resolvedIds)
    /\ labelNames' = <<>>
    /\ labelAttempt' = 0
    /\ labelSleeps' = <<>>
    /\ labelMap' = {}
    /\ parentLabels' = {}
    /\ nameIdx' = 1
    /\ resolvedIds' = <<>>
    /\ pc' = "create"
    /\ UNCHANGED <<store, comments, teamCache, calls, feedback, options,
                   startLen, detectorVars, sdk, outcome, returned, uploadVars,
                   issueData, labelStore>>
    /\ UNCHANGED <<issueCreatePayload, thrown>>
    /\ UNCHANGED <<apiVars, fbVars, callerVars>>

----------------------------------------------------------------------------
(* createIssueFromTestFlight: sdk.createIssue and the result *)

Create ==
    /\ pc = "create"
    /\ sdk' = sdk \cup {"createIssue"}
    /\ LET created == Append(store, Issue(TeamId, issueData.title,
                                          issueData.description, TRUE, calls,
                                          feedback.id))
       IN  \/ \* the call throws
              /\ issueCreatePayload' = "threw"
              /\ Throw(RemoteError)
              /\ UNCHANGED <<store, teamCache>>
           \/ \* the call reports success false
              /\ issueCreatePayload' = "failure"
              /\ Throw(CreateFailedText)
              /\ UNCHANGED <<store, teamCache>>
           \/ \* the issue is created, and no issue payload comes back
              /\ store' = created
              /\ issueCreatePayload' = "noIssue"
              /\ Throw(NoIssueText)
              /\ UNCHANGED teamCache
           \/ \* the issue is created and converted
              /\ store' = created
              /\ issueCreatePayload' = "issue"
              /\ \E r \in ConvertResults :
                    /\ teamCache' = r.cache
                    /\ IF r.ok
                       THEN /\ outcome' = "CREATED"
                            /\ returned' = Len(created)
                            /\ pc' = "done"
                            /\ UNCHANGED thrown
                       ELSE Throw(ConvertError(r))
    /\ UNCHANGED <<comments, calls, feedback, options, startLen, detectorVars,
                   uploadVars, issueData, labelStore, labelVars>>
    /\ UNCHANGED <<apiVars, fbVars, callerVars>>

\* the invocation has returned or thrown; the client is ready for the next
Return ==
    /\ pc = "done"
    /\ pc' = "idle"
    /\ feedback' = NoFeedback
    /\ options' = NoOptions
    /\ startLen' = 0
    /\ attempt' = 0
    /\ queried' = <<>>
    /\ sleeps' = <<>>
    /\ hit' = 0
    /\ dupResult' = "pending"
    /\ sdk' = {}
    /\ outcome' = "none"
    /\ returned' = 0
    /\ imgIdx' = 1
    /\ results' = NoResults
    /\ lastPass' = NoPass
    /\ screenshotUrls' = <<>>
    /\ issueData' = NoIssueData
    /\ labelNames' = <<>>
    /\ labelAttempt' = 0
    /\ labelSleeps' = <<>>
    /\ labelMap' = {}
    /\ parentLabels' = {}
    /\ nameIdx' = 1
    /\ resolvedIds' = <<>>
    /\ uniqueLabelIds' = <<>>
    /\ issueCreatePayload' = "none"
    /\ thrown' = <<>>
    /\ UNCHANGED <<store, comments, teamCache, calls, labelStore>>
    /\ UNCHANGED <<apiVars, fbVars, callerVars>>

----------------------------------------------------------------------------
(* Specification *)

Next ==
    \/ ExternalCreate
    \/ StartCall
    \/ Tier1
    \/ Tier2
    \/ Tier3
    \/ Convert
    \/ DupError
    \/ Comment
    \/ ReadScreenshotData
    \/ UploadImage
    \/ Screenshots
    \/ Prepare
    \/ ListLabels
    \/ ResolveName
    \/ Resolved
    \/ Create
    \/ Return

Spec == Init /\ [][Next]_vars

\* Every remote call returns or fails, and the caller takes the result: no
\* step of an invocation stays pending for ever. When the caller starts an
\* invocation, and what other users do, is left open.
Step ==
    \/ Tier1 \/ Tier2 \/ Tier3 \/ Convert \/ DupError \/ Comment
    \/ ReadScreenshotData \/ UploadImage \/ Screenshots \/ Prepare
    \/ ListLabels \/ ResolveName \/ Resolved \/ Create \/ Return

\* the last invocation, with fairness
FairSpec == LastCallInit /\ [][Next]_vars /\ WF_vars(Step)

\* The screenshot block alone, for records with more images: the invocation
\* has passed the duplicate check and has read a screenshot record.
UploadInit ==
    /\ store = <<>>
    /\ comments = {}
    /\ teamCache = "null"
    /\ calls = 1
    /\ pc = "upload"
    /\ \E id \in FeedbackIds, images \in SeqsUpTo(ImageRefs, MaxUploadImages) :
          feedback = [id |-> id, type |-> "screenshot", images |-> images]
    /\ options = NoOptions
    /\ startLen = 0
    /\ attempt = 0
    /\ queried = <<>>
    /\ sleeps = <<>>
    /\ hit = 0
    /\ dupResult = "null"
    /\ sdk = {}
    /\ outcome = "none"
    /\ returned = 0
    /\ imgIdx = 1
    /\ results = NoResults
    /\ lastPass = NoPass
    /\ screenshotUrls = <<>>
    /\ issueData = NoIssueData
    /\ labelStore = InitialLabels
    /\ labelNames = <<>>
    /\ labelAttempt = 0
    /\ labelSleeps = <<>>
    /\ labelMap = {}
    /\ parentLabels = {}
    /\ nameIdx = 1
    /\ resolvedIds = <<>>
    /\ uniqueLabelIds = <<>>
    /\ issueCreatePayload = "none"
    /\ thrown = <<>>
    /\ IdleApi
    /\ IdleFeedback
    /\ IdleCallers

UploadNext ==
    \/ UploadImage
    \/ Screenshots

UploadSpec == UploadInit /\ [][UploadNext]_vars

----------------------------------------------------------------------------
(* TestFlightClient.makeApiRequest *)

\* DEFAULT_HTTP_CONFIG.retries, DEFAULT_HTTP_CONFIG.retryDelay (ms)
defaultRetries == 3
defaultRetryDelay == 1000

\* waitForRateLimit: the remaining count at or under which the client waits
RateLimitFloor == 5

\* the options of a request: the defaults, or shorter ones
ShortRetries == 1
ShortRetryDelay == 15
ApiOptions ==
    [retries : {ShortRetries, defaultRetries},
     retryDelay : {ShortRetryDelay, defaultRetryDelay}]

\* how far ahead of the clock a response places the reset of the window, ms
ResetAhead == 1000

\* the value of X-RateLimit-Limit
HeaderLimit == 100

\* the X-RateLimit-Remaining, -Reset and -Limit headers of a response sent at
\* time t: none of them, all three (the reset in seconds), or the first two
\* without the limit
RateHeaders(t) ==
    {NoHeaders}
    \cup [remaining : {RateLimitFloor, RateLimitFloor + 1},
          reset : {(t + ResetAhead) \div 1000},
          limit : {HeaderLimit}]
    \cup [remaining : {RateLimitFloor},
          reset : {(t + ResetAhead) \div 1000},
          limit : {NullHeader}]

\* the snapshots an earlier request can have left at time t
Snapshots(t) ==
    {NoRateLimit} \cup
    [set : {TRUE}, remaining : {RateLimitFloor}, reset : {t, t + ResetAhead},
     limit : {HeaderLimit}]

Statuses == {200, 401, 403, 404, 429, 503}

\* Response.ok
Ok(status) == status >= 200 /\ status < 300

\* Response.statusText
StatusText(status) ==
    CASE status = 200 -> "OK"
      [] status = 401 -> "Unauthorized"
      [] status = 403 -> "Forbidden"
      [] status = 404 -> "Not Found"
      [] status = 429 -> "Too Many Requests"
      [] status = 503 -> "Service Unavailable"

\* Number.prototype.toString, as the digits in order
Digit(d) == <<"0", "1", "2", "3", "4", "5", "6", "7", "8", "9">>[d + 1]

RECURSIVE Decimal(_)
Decimal(n) ==
    IF n < 10 THEN <<Digit(n)>> ELSE Decimal(n \div 10) \o <<Digit(n % 10)>>

\* the errors of an error body, as `${title}: ${detail}` joined
ErrorTexts ==
    {<<"SERVER_ERROR", ": ", "service unavailable">>,
     <<"SERVER_ERROR", ": ", "unauthorized", " upstream">>}

\* the bodies of a response: the JSON of the data, JSON that parses to
\* errors, or text that is not JSON
DataBody == [kind |-> "data", errors |-> <<>>]
TextBody == [kind |-> "text", errors |-> <<>>]
ErrorBodies == [kind : {"errors"}, errors : ErrorTexts]
Bodies(status) ==
    IF Ok(status) THEN {DataBody, TextBody} ELSE {TextBody} \cup ErrorBodies

Responses(t) ==
    UNION {[status : {st}, rate : RateHeaders(t), body : Bodies(st)] :
              st \in Statuses}

\* the message of the error thrown for a response that is not ok
HttpErrorText(status) ==
    <<"HTTP ">> \o Decimal(status) \o <<": ", StatusText(status)>>

ApiErrorText(errorMessage) == <<"API Error: ">> \o errorMessage

\* the message of the error response.json() throws
JsonErrorText == <<"Unexpected token">>

\* the messages of the errors fetch throws: connection, AbortSignal.timeout
FetchErrors == {<<"fetch failed">>}

\* the messages of the errors getValidToken throws
TokenErrors == {<<"Failed to generate JWT token">>}

\* isRetryableError
IsRetryableError(statusCode, errorMessage) ==
    IF statusCode = 429 THEN TRUE
    ELSE IF statusCode >= 500 THEN TRUE
    ELSE IF \/ Includes(errorMessage, <<"timeout">>)
            \/ Includes(errorMessage, <<"network">>) THEN TRUE
    ELSE IF \/ Includes(errorMessage, <<"temporarily unavailable">>)
            \/ Includes(errorMessage, <<"service unavailable">>) THEN TRUE
    ELSE FALSE

\* catch: no client error is given up
ClientAbortNever(code) == FALSE

\* catch: "Don't retry on authentication errors"
AuthAbort(msg, code) ==
    \/ Includes(msg, <<"authentication">>)
    \/ Includes(msg, <<"unauthorized">>)
    \/ code = 401
    \/ code = 403

\* catch: "Don't retry on client errors"
ClientAbort(code) == code # 0 /\ code >= 400 /\ code < 500 /\ code # 429

\* Math.pow for natural numbers
RECURSIVE Pow(_, _)
Pow(b, e) == IF e = 0 THEN 1 ELSE b * Pow(b, e - 1)

\* catch: a base delay that does not grow
BaseDelayFlat(retryDelay, k) == retryDelay

\* catch: baseDelay
BaseDelay(retryDelay, k) == retryDelay * Pow(2, k)

\* catch: the values of Math.floor(baseDelay + jitter), jitter being
\* Math.random() * 0.1 * baseDelay with Math.random() in [0, 1): the least
\* and the greatest
Delays(baseDelay) == {baseDelay, baseDelay + ((baseDelay - 1) \div 10)}

\* the message of finalError
FinalErrorText(retries, msg, code) ==
    <<"Request failed after ">> \o Decimal(retries + 1) \o <<" attempts: ">>
    \o msg
    \o (IF code # 0 THEN <<" (HTTP ">> \o Decimal(code) \o <<")">> ELSE <<>>)

\* a snapshot that is taken from whatever headers the response carries
UpdateAlways(info, headers) ==
    [set |-> TRUE,
     remaining |-> headers.remaining,
     reset |-> headers.reset * 1000,
     limit |-> headers.limit]

\* updateRateLimitInfo: the snapshot after a response with these headers
UpdateRateLimitInfo(info, headers) ==
    IF /\ headers.remaining # NullHeader
       /\ headers.reset # NullHeader
       /\ headers.limit # NullHeader
    THEN [set |-> TRUE,
          remaining |-> headers.remaining,
          reset |-> headers.reset * 1000,
          limit |-> headers.limit]
    ELSE info

\* waitForRateLimit without the wait
RateLimitWaitNone(info, t) == 0

\* waitForRateLimit sleeping a whole window whenever few requests remain,
\* whether or not the reset is still ahead
RateLimitWaitWindow(info, t) ==
    IF info.set /\ info.remaining <= RateLimitFloor THEN ResetAhead ELSE 0

\* waitForRateLimit: the time it sleeps at time t (0: it does not sleep)
RateLimitWait(info, t) ==
    IF ~info.set THEN 0
    ELSE IF info.remaining <= RateLimitFloor /\ info.reset - t > 0
    THEN info.reset - t
    ELSE 0

\* the request ends with an error of this message
ApiThrow(msg) ==
    /\ apiResult' = [kind |-> "error", message |-> msg]
    /\ apiPc' = "done"
    /\ UNCHANGED <<now, apiAttempt, apiSleeps>>

\* the catch block of one attempt, lastStatusCode being code after the try
Catch(msg, code) ==
    /\ lastError' = msg
    /\ IF AuthAbort(msg, code) THEN ApiThrow(msg)
       ELSE IF ClientAbort(code) THEN ApiThrow(msg)
       ELSE IF apiAttempt = apiOptions.retries
       THEN ApiThrow(FinalErrorText(apiOptions.retries, msg, code))
       ELSE \E delay \in Delays(BaseDelay(apiOptions.retryDelay, apiAttempt)) :
               /\ apiSleeps' = Append(apiSleeps, delay)
               /\ now' = now + delay
               /\ apiAttempt' = apiAttempt + 1
               /\ apiPc' = "wait"
               /\ UNCHANGED apiResult

\* makeApiRequest is called
ApiStart ==
    /\ apiPc = "idle"
    /\ \E o \in ApiOptions : apiOptions' = o
    /\ apiAttempt' = 0
    /\ lastError' = <<>>
    /\ lastStatusCode' = 0
    /\ apiPc' = "wait"
    /\ UNCHANGED <<now, rateLimitInfo, response, dispatches, apiSleeps,
                   rateWaits, unavailable, apiResult>>
    /\ UNCHANGED <<linearVars, fbVars, callerVars>>

\* await this.waitForRateLimit()
WaitForRateLimit ==
    /\ apiPc = "wait"
    /\ LET waitTime == RateLimitWait(rateLimitInfo, now)
       IN  /\ now' = now + waitTime
           /\ rateWaits' = IF waitTime > 0 THEN rateWaits + 1 ELSE rateWaits
    /\ apiPc' = "token"
    /\ UNCHANGED <<rateLimitInfo, apiOptions, apiAttempt, lastStatusCode,
                   lastError, response, dispatches, apiSleeps, unavailable,
                   apiResult>>
    /\ UNCHANGED <<linearVars, fbVars, callerVars>>

\* await authInstance.getValidToken()
GetValidToken ==
    /\ apiPc = "token"
    /\ \/ /\ apiPc' = "fetch"
          /\ UNCHANGED <<now, apiAttempt, lastError, apiSleeps, apiResult>>
       \/ \E msg \in TokenErrors : Catch(msg, lastStatusCode)
    /\ UNCHANGED <<rateLimitInfo, apiOptions, lastStatusCode, response,
                   dispatches, rateWaits, unavailable>>
    /\ UNCHANGED <<linearVars, fbVars, callerVars>>

\* await fetch(...) and what the attempt does with the outcome
Fetch ==
    /\ apiPc = "fetch"
    /\ dispatches' = dispatches + 1
    /\ \/ /\ response' = NoResponse
          /\ \E msg \in FetchErrors : Catch(msg, lastStatusCode)
          /\ UNCHANGED <<rateLimitInfo, lastStatusCode>>
       \/ \E r \in Responses(now) :
             /\ response' = r
             /\ lastStatusCode' = r.status
             /\ rateLimitInfo' = UpdateRateLimitInfo(rateLimitInfo, r.rate)
             /\ IF ~Ok(r.status)
                THEN IF r.body.kind = "text"
                     THEN Catch(HttpErrorText(r.status), r.status)
                     ELSE Catch(ApiErrorText(r.body.errors), r.status)
                ELSE IF r.body.kind = "text"
                THEN Catch(JsonErrorText, r.status)
                ELSE /\ apiResult' = [kind |-> "data", message |-> <<>>]
                     /\ apiPc' = "done"
                     /\ UNCHANGED <<now, apiAttempt, lastError, apiSleeps>>
    /\ unavailable' = IF response'.status = 503 THEN unavailable + 1
                                                ELSE unavailable
    /\ UNCHANGED <<apiOptions, rateWaits>>
    /\ UNCHANGED <<linearVars, fbVars, callerVars>>

\* a TestFlightClient that made earlier requests, the last of them just now
ApiInit ==
    /\ IdleClient
    /\ calls = 0
    /\ now = 0
    /\ rateLimitInfo \in Snapshots(0)
    /\ IdleRequest
    /\ IdleFeedback
    /\ IdleCallers

ApiNext ==
    \/ ApiStart
    \/ WaitForRateLimit
    \/ GetValidToken
    \/ Fetch

ApiSpec == ApiInit /\ [][ApiNext]_vars

\* the request under the scheduling of the event loop: every dispatch returns
\* or fails and every sleep ends, so a step that can be taken is taken
FairApiSpec == ApiSpec /\ WF_vars(ApiNext)

----------------------------------------------------------------------------
(* TestFlightClient.resolveAppId *)

\* the apps an account can hold: no two with the same id
MaxApps == 2
AppIds == {"A1", "A2"}
BundleIds == {"b1", "b2"}
Accounts ==
    {a \in SeqsUpTo([id : AppIds, bundleId : BundleIds], MaxApps) :
        \A i, j \in DOMAIN a : a[i].id = a[j].id => i = j}

\* the call issues a makeApiRequest to this endpoint
ApiRequest(endpoint) == apiRequests' = Append(apiRequests, endpoint)

\* the call throws
FbThrow(error) ==
    /\ fbResult' = [kind |-> "threw", records |-> <<>>, error |-> error]
    /\ fbPc' = "done"
    /\ UNCHANGED <<bundleError, resolvedAppId>>

\* resolveAppId returns id, and the list fetches start
AppResolved(id) ==
    /\ resolvedAppId' = id
    /\ fbPc' = "lists"
    /\ UNCHANGED <<bundleError, fbResult>>

\* resolveAppId, case 1: the catch of the bundle id validation
BundleValidationFailed ==
    /\ bundleError' = TRUE
    /\ fbPc' = "getById"
    /\ UNCHANGED <<resolvedAppId, fbResult>>

\* resolveAppId after findAppByBundleId returned app, always the provided id
AppFoundKeepProvided(app) ==
    /\ appFromBundleId' = app
    /\ IF appId # ""
       THEN IF app = NoApp THEN BundleValidationFailed ELSE AppResolved(appId)
       ELSE IF app = NoApp THEN FbThrow("resolve") ELSE AppResolved(app.id)

\* resolveAppId after findAppByBundleId returned app (NoApp: null), cases 1
\* and 3
AppFound(app) ==
    /\ appFromBundleId' = app
    /\ IF appId # ""
       THEN IF app = NoApp THEN BundleValidationFailed
            ELSE IF app.id # appId THEN AppResolved(app.id)
            ELSE AppResolved(appId)
       ELSE IF app = NoApp THEN FbThrow("resolve") ELSE AppResolved(app.id)

\* resolveAppId after findAppByBundleId threw, cases 1 and 3
FindThrew ==
    /\ UNCHANGED appFromBundleId
    /\ IF appId # "" THEN BundleValidationFailed ELSE FbThrow("resolve")

\* Array.prototype.find on the bundle id
FindByBundleId(allApps, bundle) ==
    IF \E i \in DOMAIN allApps : allApps[i].bundleId = bundle
    THEN allApps[CHOOSE i \in DOMAIN allApps :
                    /\ allApps[i].bundleId = bundle
                    /\ \A j \in 1..(i - 1) : allApps[j].bundleId # bundle]
    ELSE NoApp

\* resolveAppId: which case applies; case 4 throws with no request made
ResolveAppId ==
    /\ fbPc = "idle"
    /\ fbResult.kind = "none"
    /\ IF bundleId # "" THEN /\ fbPc' = "filtered"
                             /\ UNCHANGED <<bundleError, resolvedAppId, fbResult>>
       ELSE IF appId # "" THEN /\ fbPc' = "getById"
                               /\ UNCHANGED <<bundleError, resolvedAppId, fbResult>>
       ELSE FbThrow("config")
    /\ UNCHANGED <<inputVars, appFromBundleId, apiRequests, listVars, itemVars, downloadVars>>
    /\ UNCHANGED <<now, otherVars>>

\* findAppByBundleId: the filtered search, which the account may answer with
\* any one app or none
FilteredSearch ==
    /\ fbPc = "filtered"
    /\ ApiRequest("apps?filter")
    /\ \/ /\ fbPc' = "manual"
          /\ UNCHANGED <<appFromBundleId, bundleError, resolvedAppId, fbResult>>
       \/ \E i \in DOMAIN apps : AppFound(apps[i])
    /\ UNCHANGED <<inputVars, listVars, itemVars, downloadVars>>
    /\ UNCHANGED <<now, otherVars>>

\* findAppByBundleId: the manual search over all apps
ManualSearch ==
    /\ fbPc = "manual"
    /\ ApiRequest("apps")
    /\ \/ FindThrew
       \/ AppFound(FindByBundleId(apps, bundleId))
    /\ UNCHANGED <<inputVars, listVars, itemVars, downloadVars>>
    /\ UNCHANGED <<now, otherVars>>

\* getAppById, in case 2 and in the catch of case 1
GetAppById ==
    /\ fbPc = "getById"
    /\ ApiRequest("apps/id")
    /\ \/ FbThrow(IF bundleError THEN "validation" ELSE "notFound")
       \/ \E i \in DOMAIN apps :
             /\ apps[i].id = appId
             /\ IF bundleError /\ apps[i].bundleId # bundleId
                THEN FbThrow("validation")
                ELSE AppResolved(appId)
    /\ UNCHANGED <<inputVars, appFromBundleId, listVars, itemVars, downloadVars>>
    /\ UNCHANGED <<now, otherVars>>

\* a client with or without app id, asked with or without bundle id
ResolveInit ==
    /\ IdleClient
    /\ calls = 0
    /\ IdleApi
    /\ appId \in {"", "A1"}
    /\ bundleId \in {"", "b1"}
    /\ apps \in Accounts
    /\ since = Date(0)
    /\ crashItems = <<>>
    /\ shotItems = <<>>
    /\ IdleCall
    /\ IdleCallers

ResolveNext ==
    \/ ResolveAppId
    \/ FilteredSearch
    \/ ManualSearch
    \/ GetAppById

ResolveSpec == ResolveInit /\ [][ResolveNext]_vars

----------------------------------------------------------------------------
(* TestFlightClient.getEnhancedRecentFeedback: the list fetches *)

\* a date attribute of the source API: absent, text that is no date, or the
\* ISO string of a time
AbsentAttr == [kind |-> "absent", time |-> 0]
TextAttr == [kind |-> "text", time |-> 0]
Iso(t) == [kind |-> "iso", time |-> t]

\* the attribute is truthy: a string that is not empty
Truthy(attr) == attr.kind # "absent"

\* new Date(string)
NewDate(attr) == IF attr.kind = "iso" THEN Date(attr.time) ELSE InvalidDate

\* Date.prototype.toISOString
ToISOString(d) == Iso(d.time)

\* a >= b on Dates: false when either is an Invalid Date
DateGE(a, b) == a.valid /\ b.valid /\ a.time >= b.time

\* a <= b on Dates
DateLE(a, b) == a.valid /\ b.valid /\ a.time <= b.time

\* new Date(attributes.createdDate || attributes.submittedAt || 0)
FilterDate(item) ==
    IF Truthy(item.createdDate) THEN NewDate(item.createdDate)
    ELSE IF Truthy(item.submittedAt) THEN NewDate(item.submittedAt)
    ELSE Date(0)

\* Array.prototype.filter
RECURSIVE SelectItems(_, _)
SelectItems(items, cutoff) ==
    IF items = <<>> THEN <<>>
    ELSE (IF DateGE(FilterDate(Head(items)), cutoff)
          THEN <<Head(items)>> ELSE <<>>)
         \o SelectItems(Tail(items), cutoff)

\* the record's date: createdDate || submittedAt || new Date().toISOString()
SubmittedAt(item, t) ==
    NewDate(IF Truthy(item.createdDate) THEN item.createdDate
            ELSE IF Truthy(item.submittedAt) THEN item.submittedAt
            ELSE ToISOString(Date(t)))

----------------------------------------------------------------------------
(* TestFlightClient.getEnhancedRecentFeedback: the records *)

\* the default of a missing expiresAt: Date.now() + 3600000
DefaultExpiry == 3600000

\* `screenshot_${index}.png`, index counted from 0
DefaultFileName(i) ==
    <<"screenshot_0.png", "screenshot_1.png", "screenshot_2.png">>[i]

\* cachedData: unset, or bytes of this length
NoData == [set |-> FALSE, length |-> 0]
Bytes(n) == [set |-> TRUE, length |-> n]

\* one element of the images of a record, made from a screenshot of the API
\* at position i (from 1) at time t
ProcessedImg(img, i, t) ==
    [url |-> img.url,
     fileName |-> IF img.fileName = "" THEN DefaultFileName(i) ELSE img.fileName,
     fileSize |-> img.fileSize,
     expiresAt |-> IF Truthy(img.expiresAt) THEN NewDate(img.expiresAt)
                   ELSE Date(t + DefaultExpiry),
     cachedData |-> NoData]

\* Array.prototype.map with ProcessedImg
ProcessedImages(imgs, t) == [i \in DOMAIN imgs |-> ProcessedImg(imgs[i], i, t)]

\* processCrashReport at time t
ProcessCrashReport(crash, t) ==
    [id |-> crash.id, type |-> "crash", submittedAt |-> SubmittedAt(crash, t),
     detailed |-> FALSE, logs |-> FALSE, images |-> <<>>]

\* processScreenshotFeedback at time t
ProcessScreenshotFeedback(screenshot, t) ==
    [id |-> screenshot.id, type |-> "screenshot",
     submittedAt |-> SubmittedAt(screenshot, t),
     detailed |-> FALSE, logs |-> FALSE,
     images |-> ProcessedImages(screenshot.screenshots, t)]

\* the sort leaves processedData as it is
UnsortedByDate(records) == records

\* Array.prototype.sort with (a, b) => b.submittedAt.getTime() -
\* a.submittedAt.getTime(): a stable insertion, newest first
RECURSIVE InsertByDate(_, _)
InsertByDate(sorted, r) ==
    IF sorted = <<>> THEN <<r>>
    ELSE IF Head(sorted).submittedAt.time >= r.submittedAt.time
    THEN <<Head(sorted)>> \o InsertByDate(Tail(sorted), r)
    ELSE <<r>> \o sorted

RECURSIVE SortedFrom(_, _)
SortedFrom(sorted, records) ==
    IF records = <<>> THEN sorted
    ELSE SortedFrom(InsertByDate(sorted, Head(records)), Tail(records))

SortByDate(records) == SortedFrom(<<>>, records)

----------------------------------------------------------------------------
(* TestFlightClient.getEnhancedRecentFeedback: the call *)

\* the time a detail fetch takes, ms: none to speak of, or ApiTime; the
\* other requests are taken to be answered at once
ApiTime == 2000
Elapsed(t) == {t, t + ApiTime}

\* processScreenshotFeedbackData: the loop is at screenshot k
EnterShot(k) ==
    /\ itemIdx' = k
    /\ IF k <= Len(screenshots)
       THEN /\ fbPc' = "shotDetail"
            /\ current' = ProcessScreenshotFeedback(screenshots[k], now')
       ELSE /\ fbPc' = "sort"
            /\ current' = NoRecord

\* processCrashReportsWithDetails: the loop is at crash k
EnterCrash(k) ==
    IF k <= Len(crashes)
    THEN /\ itemIdx' = k
         /\ fbPc' = "crashDetail"
         /\ current' = ProcessCrashReport(crashes[k], now')
    ELSE EnterShot(1)

\* an item whose enrichment failed is left out
PushRecordEnriched(record) ==
    /\ processedData' = IF record.detailed THEN Append(processedData, record)
                                           ELSE processedData
    /\ IF record.type = "crash" THEN EnterCrash(itemIdx + 1)
                                ELSE EnterShot(itemIdx + 1)

\* processedData.push(record), and the loop goes on
PushRecord(record) ==
    /\ processedData' = Append(processedData, record)
    /\ IF record.type = "crash" THEN EnterCrash(itemIdx + 1)
                                ELSE EnterShot(itemIdx + 1)

\* Promise.all([...]): both list fetches start
StartLists ==
    /\ fbPc = "lists"
    /\ crashFetch' = "pending"
    /\ shotFetch' = "pending"
    /\ apiRequests' = apiRequests \o <<"crashList", "shotList">>
    /\ fbPc' = "await"
    /\ UNCHANGED <<inputVars, appFromBundleId, bundleError, resolvedAppId,
                   crashes, screenshots, itemVars, downloadVars, fbResult>>
    /\ UNCHANGED <<now, otherVars>>

\* getAppCrashSubmissionsWithDateFilter settles
CrashListDone ==
    /\ crashFetch = "pending"
    /\ UNCHANGED now
    /\ \/ /\ crashFetch' = "failed"
          /\ UNCHANGED crashes
       \/ /\ crashFetch' = "done"
          /\ crashes' = SelectItems(crashItems, since)
    /\ UNCHANGED <<fbPc, inputVars, appFromBundleId, bundleError,
                   resolvedAppId, apiRequests, shotFetch, screenshots,
                   itemVars, downloadVars, fbResult>>
    /\ UNCHANGED otherVars

\* getAppScreenshotSubmissionsWithDateFilter settles
ShotListDone ==
    /\ shotFetch = "pending"
    /\ UNCHANGED now
    /\ \/ /\ shotFetch' = "failed"
          /\ UNCHANGED screenshots
       \/ /\ shotFetch' = "done"
          /\ screenshots' = SelectItems(shotItems, since)
    /\ UNCHANGED <<fbPc, inputVars, appFromBundleId, bundleError,
                   resolvedAppId, apiRequests, crashFetch, crashes,
                   itemVars, downloadVars, fbResult>>
    /\ UNCHANGED otherVars

\* the enrichment starts when one list fetch is done
ListsReadyEither ==
    /\ crashFetch # "failed" /\ shotFetch # "failed"
    /\ crashFetch = "done" \/ shotFetch = "done"

\* await Promise.all: both list fetches are done
ListsReady == crashFetch = "done" /\ shotFetch = "done"

\* await Promise.all settles: it rejects when a list fetch has failed, and
\* resolves when both are done; then the loop over the crashes starts
ListsSettled ==
    /\ fbPc = "await"
    /\ UNCHANGED now
    /\ \/ /\ crashFetch = "failed" \/ shotFetch = "failed"
          /\ FbThrow("list")
          /\ UNCHANGED itemVars
       \/ /\ ListsReady
          /\ EnterCrash(1)
          /\ UNCHANGED <<processedData, bundleError, resolvedAppId, fbResult>>
    /\ UNCHANGED <<inputVars, appFromBundleId, apiRequests, listVars,
                   downloadVars>>
    /\ UNCHANGED otherVars

\* getDetailedCrashSubmission and mergeEnhancedCrashMetadata, in their try
CrashDetail ==
    /\ fbPc = "crashDetail"
    /\ ApiRequest("crashDetail")
    /\ now' \in Elapsed(now)
    /\ \E ok \in BOOLEAN : current' = [current EXCEPT !.detailed = ok]
    /\ fbPc' = "crashLog"
    /\ UNCHANGED <<inputVars, appFromBundleId, bundleError, resolvedAppId,
                   listVars, processedData, itemIdx, downloadVars, fbResult>>
    /\ UNCHANGED otherVars

\* getCrashLog and getCrashLogText, in their try; then the push
CrashLog ==
    /\ fbPc = "crashLog"
    /\ ApiRequest("crashLog")
    /\ UNCHANGED now
    /\ \E logText \in BOOLEAN : PushRecord([current EXCEPT !.logs = logText])
    /\ UNCHANGED <<inputVars, appFromBundleId, bundleError, resolvedAppId,
                   listVars, downloadVars, fbResult>>
    /\ UNCHANGED otherVars

----------------------------------------------------------------------------
(* processScreenshotFeedbackData and downloadSingleScreenshotImage *)

\* downloadSingleScreenshotImage: maxRetries
dlMaxRetries == 3

\* the byte count of a screenshot
PngLength == 4

\* the check of expiresAt that lets through an image expiring just now
ExpiredStrictly(img, t) == img.expiresAt.valid /\ img.expiresAt.time < t

\* imageInfo.expiresAt <= new Date()
Expired(img, t) == DateLE(img.expiresAt, Date(t))

\* a retry on every status that is not ok
RetryStatusAny(status) == status >= 400

\* "Retry on 5xx errors"
RetryStatus(status) == status >= 500

\* a backoff that starts at 1 s
DownloadDelayFromOne(k) == Pow(2, k - 1) * 1000

\* the backoff after the failed attempt k: Math.pow(2, attempt) * 1000
DownloadDelay(k) == Pow(2, k) * 1000

\* the acquisition caches only bytes of the declared size
CachedIfSizeMatches(img, data) ==
    IF data.set /\ (img.fileSize = 0 \/ data.length = img.fileSize)
    THEN [img EXCEPT !.cachedData = data] ELSE img

\* if (imageData) imageInfo.cachedData = imageData
Cached(img, data) == IF data.set THEN [img EXCEPT !.cachedData = data] ELSE img

\* what a download request gives: a status and, with 200, bytes; or an
\* error thrown by fetch or by arrayBuffer
DownloadOutcomes ==
    [status : {200}, length : {0, PngLength}, threw : {FALSE}]
    \cup [status : {404, 503}, length : {0}, threw : {FALSE}]
    \cup [status : {0}, length : {0}, threw : {TRUE}]

\* the detail is taken for fetched and the downloads are left out
AfterDetailSkip(record) ==
    /\ PushRecord(record)
    /\ UNCHANGED downloadVars

\* after the try of the detail fetch: the acquisition loop over the images
\* of the record starts, or with no image the record is pushed
AfterDetail(record) ==
    IF record.images # <<>>
    THEN /\ current' = record
         /\ fbPc' = "download"
         /\ imageIdx' = 1
         /\ dlAttempt' = 0
         /\ UNCHANGED <<processedData, itemIdx, dlSleeps, dlRequests,
                        dlStatuses, dlResult>>
    ELSE /\ PushRecord(record)
         /\ UNCHANGED downloadVars

\* getDetailedScreenshotSubmission in its try: a detail that holds
\* screenshots replaces the images of the record
ShotDetail ==
    /\ fbPc = "shotDetail"
    /\ ApiRequest("shotDetail")
    /\ now' \in Elapsed(now)
    /\ \E ok \in BOOLEAN :
          LET detail == screenshots[itemIdx].detail
              images == IF ok /\ detail # <<>>
                        THEN ProcessedImages(detail, now')
                        ELSE current.images
          IN  AfterDetail([current EXCEPT !.detailed = ok, !.images = images])
    /\ UNCHANGED <<inputVars, appFromBundleId, bundleError, resolvedAppId,
                   listVars, fbResult>>
    /\ UNCHANGED otherVars

\* downloadSingleScreenshotImage has returned data (NoData: null) to the
\* acquisition loop, which goes on with the next image or pushes the record
Downloaded(data) ==
    LET record == [current EXCEPT
                      !.images[imageIdx] = Cached(current.images[imageIdx], data)]
    IN  /\ dlResult' = IF data.set THEN "data" ELSE "null"
        /\ dlAttempt' = 0
        /\ IF imageIdx < Len(current.images)
           THEN /\ imageIdx' = imageIdx + 1
                /\ current' = record
                /\ UNCHANGED <<fbPc, processedData, itemIdx>>
           ELSE /\ imageIdx' = 1
                /\ PushRecord(record)

\* downloadSingleScreenshotImage is called: the check of expiresAt
DownloadCall ==
    /\ fbPc = "download"
    /\ dlAttempt = 0
    /\ dlSleeps' = <<>>
    /\ dlRequests' = 0
    /\ dlStatuses' = <<>>
    /\ UNCHANGED now
    /\ IF Expired(current.images[imageIdx], now)
       THEN Downloaded(NoData)
       ELSE /\ dlAttempt' = 1
            /\ dlResult' = "none"
            /\ UNCHANGED <<fbPc, itemVars, imageIdx>>
    /\ UNCHANGED <<inputVars, appFromBundleId, bundleError, resolvedAppId,
                   apiRequests, listVars, fbResult>>
    /\ UNCHANGED otherVars

\* one pass of the retry loop: the request, and what follows its outcome
DownloadAttempt ==
    /\ fbPc = "download"
    /\ dlAttempt >= 1
    /\ dlRequests' = dlRequests + 1
    /\ \E o \in DownloadOutcomes :
          /\ dlStatuses' = Append(dlStatuses, o.status)
          /\ IF ~o.threw /\ o.status = 200
             THEN /\ UNCHANGED <<now, dlSleeps>>
                  /\ Downloaded(Bytes(o.length))
             ELSE IF /\ o.threw \/ RetryStatus(o.status)
                     /\ dlAttempt < dlMaxRetries
             THEN /\ dlSleeps' = Append(dlSleeps, DownloadDelay(dlAttempt))
                  /\ now' = now + DownloadDelay(dlAttempt)
                  /\ dlAttempt' = dlAttempt + 1
                  /\ UNCHANGED <<fbPc, itemVars, imageIdx, dlResult>>
             ELSE /\ UNCHANGED <<now, dlSleeps>>
                  /\ Downloaded(NoData)
    /\ UNCHANGED <<inputVars, appFromBundleId, bundleError, resolvedAppId,
                   apiRequests, listVars, fbResult>>
    /\ UNCHANGED otherVars

\* processedData.sort(...) and the return
SortAndReturn ==
    /\ fbPc = "sort"
    /\ processedData' = SortByDate(processedData)
    /\ fbResult' = [kind |-> "returned", records |-> processedData',
                    error |-> ""]
    /\ fbPc' = "done"
    /\ UNCHANGED <<inputVars, appFromBundleId, bundleError, resolvedAppId,
                   apiRequests, listVars, itemIdx, current, downloadVars>>
    /\ UNCHANGED <<now, otherVars>>

----------------------------------------------------------------------------
(* Specifications of the TestFlightClient *)

\* the clock when the call starts, and the cutoff, ms
RunStart == 100
Cutoff == 5

\* the dates a list item can carry: createdDate only, submittedAt only,
\* neither, a createdDate that is no date, both with createdDate at the cutoff
ItemDates ==
    {[createdDate |-> Iso(Cutoff + 2), submittedAt |-> AbsentAttr],
     [createdDate |-> AbsentAttr, submittedAt |-> Iso(Cutoff - 2)],
     [createdDate |-> AbsentAttr, submittedAt |-> AbsentAttr],
     [createdDate |-> TextAttr, submittedAt |-> Iso(Cutoff + 2)],
     [createdDate |-> Iso(Cutoff), submittedAt |-> Iso(Cutoff + 4)]}

\* a screenshot of the API: expiresAt absent or the ISO string of time e
RawImage(name, size, e) ==
    [url |-> "u", fileName |-> name, fileSize |-> size, expiresAt |-> e]

\* the list items of the account, the ids in list order
MaxCrashes == 1
MaxShots == 2
CrashIds == <<"c1", "c2", "c3">>
ShotIds == <<"s1", "s2", "s3">>

CrashItem(i, d) ==
    [id |-> CrashIds[i], createdDate |-> d.createdDate,
     submittedAt |-> d.submittedAt, screenshots |-> <<>>, detail |-> <<>>]

ShotItem(i, d, listed, detail) ==
    [id |-> ShotIds[i], createdDate |-> d.createdDate,
     submittedAt |-> d.submittedAt, screenshots |-> listed, detail |-> detail]

CrashLists ==
    {[i \in DOMAIN ds |-> CrashItem(i, ds[i])] :
        ds \in SeqsUpTo(ItemDates, MaxCrashes)}

\* the detail of the first screenshot holds no image, or one that lasts;
\* the details of the others hold none
ShotDetails(i) ==
    IF i = 1 THEN {<<>>, <<RawImage("f.png", PngLength, AbsentAttr)>>}
    ELSE {<<>>}

ShotLists ==
    UNION {{[i \in DOMAIN ds |->
                ShotItem(i, ds[i], <<>>, IF i = 1 THEN detail ELSE <<>>)] :
               detail \in ShotDetails(1)} :
           ds \in SeqsUpTo(ItemDates, MaxShots)}

\* a client with an app id, asked for the feedback since the epoch or since
\* the cutoff, with or without bundle id
FeedbackInit ==
    /\ IdleClient
    /\ calls = 0
    /\ rateLimitInfo = NoRateLimit
    /\ IdleRequest
    /\ now = RunStart
    /\ appId = "A1"
    /\ bundleId \in {"", "b1"}
    /\ apps = <<[id |-> "A1", bundleId |-> "b1"]>>
    /\ since \in {Date(0), Date(Cutoff)}
    /\ crashItems \in CrashLists
    /\ shotItems \in ShotLists
    /\ IdleCall
    /\ IdleCallers

FeedbackNext ==
    \/ ResolveAppId
    \/ FilteredSearch
    \/ ManualSearch
    \/ GetAppById
    \/ StartLists
    \/ CrashListDone
    \/ ShotListDone
    \/ ListsSettled
    \/ CrashDetail
    \/ CrashLog
    \/ ShotDetail
    \/ DownloadCall
    \/ DownloadAttempt
    \/ SortAndReturn

FeedbackSpec == FeedbackInit /\ [][FeedbackNext]_vars

\* the screenshots a detail can hold: with or without file name and size,
\* expiresAt absent, or the moment a slow detail fetch ends, or 2 s later
MaxDetailImages == 2
RawImages ==
    {RawImage(f.name, f.size, e) :
        f \in {[name |-> "", size |-> 0], [name |-> "f.png", size |-> PngLength]},
        e \in {AbsentAttr, Iso(RunStart + ApiTime), Iso(RunStart + ApiTime + 2000)}}

\* the call at the first screenshot of a list of one, the list fetches done
\* and no crash listed; the list item itself holds no image or one
AcquireInit ==
    /\ IdleClient
    /\ calls = 0
    /\ rateLimitInfo = NoRateLimit
    /\ IdleRequest
    /\ now = RunStart
    /\ appId = "A1"
    /\ bundleId = ""
    /\ apps = <<[id |-> "A1", bundleId |-> "b1"]>>
    /\ since = Date(0)
    /\ crashItems = <<>>
    /\ \E listed \in SeqsUpTo({RawImage("l.png", 0, AbsentAttr)}, 1),
          detail \in SeqsUpTo(RawImages, MaxDetailImages) :
          shotItems = <<ShotItem(1, [createdDate |-> Iso(Cutoff),
                                     submittedAt |-> AbsentAttr],
                                 listed, detail)>>
    /\ appFromBundleId = NoApp
    /\ bundleError = FALSE
    /\ resolvedAppId = "A1"
    /\ apiRequests = <<"apps/id", "crashList", "shotList">>
    /\ crashFetch = "done"
    /\ shotFetch = "done"
    /\ crashes = <<>>
    /\ screenshots = shotItems
    /\ processedData = <<>>
    /\ itemIdx = 1
    /\ current = ProcessScreenshotFeedback(shotItems[1], now)
    /\ fbPc = "shotDetail"
    /\ imageIdx = 1
    /\ dlAttempt = 0
    /\ dlSleeps = <<>>
    /\ dlRequests = 0
    /\ dlStatuses = <<>>
    /\ dlResult = "none"
    /\ fbResult = NoFbResult
    /\ IdleCallers

AcquireNext ==
    \/ ShotDetail
    \/ DownloadCall
    \/ DownloadAttempt
    \/ SortAndReturn

AcquireSpec == AcquireInit /\ [][AcquireNext]_vars

----------------------------------------------------------------------------
(* Properties *)

\* the feedback id is literally in the description of an issue that the team
\* held when the invocation started
HeldAtStart ==
    \E i \in 1..startLen : Includes(store[i].description, feedback.id)

HeldInTeamAtStart ==
    \E i \in 1..startLen :
       /\ store[i].team = TeamId
       /\ Includes(store[i].description, feedback.id)

\* C1: when findDuplicateIssue has thrown after its third failed attempt, the
\* invocation ends FAILED and has issued no createIssue call.
C1_FailClosed ==
    dupResult = "error" =>
       /\ attempt = maxRetries
       /\ pc \in {"dupError", "done"}
       /\ pc = "done" => outcome = "FAILED" /\ returned = 0
       /\ "createIssue" \notin sdk

C1_Witness ==
    /\ pc = "done"
    /\ dupResult = "error"
    /\ outcome = "FAILED"
    /\ attempt = maxRetries

C3_OneIssuePerFeedback ==
    \A i, j \in IssueIds :
       (/\ store[i].origin > 0
        /\ store[j].origin > 0
        /\ store[i].fid = store[j].fid) => i = j

\* C4: the description handed to sdk.createIssue contains the feedback id.
C4_DescriptionHasId ==
    pc = "create" => Includes(issueData.description, feedback.id)

\* the search of the current attempt answered last
LastQueried == queried[Len(queried)]

\* C5: a node that findDuplicateIssue converts and returns has the feedback id
\* literally in its description, whichever strategy gave it, and a node of the
\* full-text search is of the configured team besides.
C5_ReturnedIsConfirmed ==
    /\ hit # 0 =>
          /\ queried # <<>>
          /\ Includes(store[hit].description, feedback.id)
          /\ LastQueried.tier = 2 => store[hit].team = TeamId
    /\ dupResult = "issue" => hit # 0

C5_Witness ==
    /\ dupResult = "issue"
    /\ LastQueried.tier = 2
    /\ \E i \in IssueIds : i # hit /\ Tier1Filter(store[i], feedback.id)

\* C6: in one attempt the searches are answered in the order 1, 2, 3, a search
\* is made only when no earlier search of the attempt gave a confirmed node,
\* and after a confirmed node no further search of the attempt is made.
C6_TierOrder ==
    /\ Len(queried) <= 3
    /\ \A k \in DOMAIN queried :
          /\ queried[k].tier = k
          /\ k < Len(queried) => ~queried[k].confirmed
    /\ pc = "tier1" => queried = <<>>
    /\ pc = "tier2" => Len(queried) = 1
    /\ pc = "tier3" => Len(queried) = 2
    /\ pc = "convert" => queried # <<>> /\ LastQueried.confirmed

C6_Witness ==
    /\ pc = "convert"
    /\ Len(queried) = 3
    /\ LastQueried.confirmed

\* the first two backoff delays of findDuplicateIssue, ms
TwoThenFour == <<2000, 4000>>

\* C7: findDuplicateIssue makes at most three attempts; a failed attempt is
\* followed by the next one, which starts with strategy 1; it sleeps 2s
\* before attempt 2 and 4s before attempt 3, and not after the third failure.
C7_State ==
    /\ attempt <= maxRetries
    /\ attempt >= 1 => sleeps = SubSeq(TwoThenFour, 1, attempt - 1)
    /\ dupResult = "error" => attempt = maxRetries /\ sleeps = TwoThenFour

C7_Step ==
    (attempt >= 1 /\ attempt' # attempt /\ attempt' # 0) =>
       /\ attempt' = attempt + 1
       /\ pc' = "tier1"
       /\ queried' = <<>>
       /\ Len(sleeps') = Len(sleeps) + 1

C7_ThreeAttempts == []C7_State /\ [][C7_Step]_vars

C7_Witness ==
    /\ pc = "dupError"
    /\ sleeps = TwoThenFour

\* the step in which strategy 3 answers with no confirmed node
NoMatchStep ==
    /\ pc = "tier3"
    /\ queried' = Append(queried, [tier |-> 3, confirmed |-> FALSE])

\* C8: when the third strategy of an attempt answers and no node is confirmed,
\* findDuplicateIssue returns null in that step: the attempt count and the
\* sleeps stay as they are, also after earlier attempts failed.
C8_Step ==
    NoMatchStep =>
       /\ dupResult' = "null"
       /\ pc' = "upload"
       /\ attempt' = attempt
       /\ sleeps' = sleeps

C8_NullIsFinal ==
    /\ [][C8_Step]_vars
    /\ [](dupResult = "null" =>
             pc \notin {"tier1", "tier2", "tier3", "convert", "dupError", "comment"})

C8_Witness ==
    /\ dupResult = "null"
    /\ pc = "upload"
    /\ attempt = maxRetries
    /\ Len(queried) = 3

\* C9: fileUpload, the PUT of image bytes, createIssueLabel and createIssue
\* are issued only after findDuplicateIssue returned null, and in the order
\* of the phases; with a duplicate found or the detector failed none is issued.
C9_CallsAfterNull ==
    /\ sdk \cap {"fileUpload", "PUT", "createIssueLabel", "createIssue"} # {} =>
          dupResult = "null"
    /\ pc \in {"prepare", "listLabels", "resolveName", "resolved", "create"} =>
          dupResult = "null"
    /\ outcome = "COMMENTED" => dupResult = "issue"
    /\ outcome = "CREATED" => dupResult = "null"
    /\ pc \in {"upload", "prepare"} =>
          sdk \cap {"createIssueLabel", "createIssue"} = {}
    /\ "createIssueLabel" \in sdk =>
          pc \in {"listLabels", "resolveName", "resolved", "create", "done"}
    /\ "createIssue" \in sdk => pc = "done"

C9_Witness ==
    /\ pc = "done"
    /\ outcome = "CREATED"
    /\ {"fileUpload", "PUT", "createIssueLabel", "createIssue"} \subseteq sdk

\* what an invocation that has ended shows
C10_Outcome ==
    /\ pc # "done" => outcome = "none"
    /\ pc = "done" =>
          \/ /\ outcome = "CREATED"
             /\ returned \in IssueIds
             /\ store[returned].origin = calls
          \/ /\ outcome = "COMMENTED"
             /\ returned \in IssueIds
             /\ store[returned].origin # calls
             /\ <<returned, calls>> \in comments
          \/ /\ outcome = "FAILED"
             /\ returned = 0
    /\ attempt <= maxRetries
    /\ labelAttempt <= labelMaxRetries

\* C10: with every remote call returning or failing, an invocation ends, and
\* ends in exactly one of CREATED (a new issue returned), COMMENTED (an
\* existing issue returned, with a comment on it) and FAILED (nothing
\* returned); the retry loops of the detector and of the label resolver make
\* at most three attempts.
C10_Terminates ==
    /\ []C10_Outcome
    /\ (pc \notin {"idle", "done"}) ~> (pc = "done")

C10_Witness ==
    /\ pc = "done"
    /\ outcome = "CREATED"
    /\ store[returned].fid = feedback.id
    /\ uniqueLabelIds # <<>>

\* the text of the failure that the answer of sdk.createIssue stands for
UnderlyingText ==
    IF issueCreatePayload = "failure" THEN CreateFailedText ELSE NoIssueText

\* C11: when sdk.createIssue reports success false or gives no issue, the
\* invocation ends FAILED, returns no issue, and the message of the error it
\* throws contains the text of the underlying error.
C11_CreateFailureThrows ==
    issueCreatePayload \in {"failure", "noIssue"} =>
       /\ pc = "done"
       /\ outcome = "FAILED"
       /\ returned = 0
       /\ Includes(thrown, UnderlyingText)

C11_Witness ==
    /\ issueCreatePayload = "noIssue"
    /\ outcome = "FAILED"
    /\ Len(store) > startLen

\* the step in which resolveLabelNamesToIds gives up after a failed attempt
LabelGiveUpStep ==
    /\ pc \in {"listLabels", "resolveName"}
    /\ pc' = "resolved"
    /\ nameIdx' = 1

\* C12: resolveLabelNamesToIds never throws: from the label phase the
\* invocation goes on to sdk.createIssue. When it gives up it has made three
\* attempts, slept 2s and 4s, and returns no id; createIssue is then issued
\* with no label ids.
C12_Step ==
    /\ pc \in {"listLabels", "resolveName", "resolved"} =>
          /\ pc' \in {"listLabels", "resolveName", "resolved", "create"}
          /\ outcome' = "none"
          /\ thrown' = <<>>
    /\ LabelGiveUpStep =>
          /\ labelAttempt = labelMaxRetries
          /\ labelSleeps = TwoThenFour
          /\ resolvedIds' = <<>>
    /\ pc = "resolved" =>
          /\ pc' = "create"
          /\ resolvedIds = <<>> => uniqueLabelIds' = <<>>
    /\ pc = "create" =>
          /\ "createIssue" \in sdk'
          /\ uniqueLabelIds' = uniqueLabelIds

C12_LabelFailureNotFatal == [][C12_Step]_vars

C12_Witness ==
    /\ pc = "resolved"
    /\ labelNames # <<>>
    /\ labelAttempt = labelMaxRetries
    /\ labelSleeps = TwoThenFour
    /\ nameIdx = 1

\* the label names of the invocation, and those written more than once in
\* different letter case
RequestedLabels == AllLabels(feedback, options)

CaseDuplicated ==
    {LowerName(RequestedLabels[i]) : i \in
        {i \in DOMAIN RequestedLabels :
            \E j \in DOMAIN RequestedLabels :
               /\ j # i
               /\ RequestedLabels[j] # RequestedLabels[i]
               /\ LowerName(RequestedLabels[j]) = LowerName(RequestedLabels[i])}}

\* the positions of ids whose label has the name c, letter case apart
IdsOfName(ids, c) ==
    {k \in DOMAIN ids : LowerName(labelStore[ids[k]].name) = c}

MappedNameStep ==
    /\ pc = "resolveName"
    /\ nameIdx' = nameIdx + 1
    /\ labelNames[nameIdx] \notin parentLabels
    /\ \E m \in labelMap : m[1] = labelNames[nameIdx]

\* C13, amended: names that differ only by letter case give at most one
\* label id, in resolvedIds and in the ids handed to sdk.createIssue, and no
\* id is listed twice; a name that labelMap holds gives exactly one.
C13_State ==
    /\ \A c \in CaseDuplicated :
          /\ Cardinality(IdsOfName(resolvedIds, c)) <= 1
          /\ Cardinality(IdsOfName(uniqueLabelIds, c)) <= 1
    /\ \A j, k \in DOMAIN uniqueLabelIds :
          uniqueLabelIds[j] = uniqueLabelIds[k] => j = k

C13_Step ==
    MappedNameStep =>
       Cardinality({k \in DOMAIN resolvedIds' :
                       <<labelNames[nameIdx], resolvedIds'[k]>> \in labelMap}) = 1

LinksOf(k) ==
    {j \in DOMAIN screenshotUrls :
        screenshotUrls[j].url \in {<<"asset", k>>, <<"apple", k>>}}

\* C14: when the screenshot block has ended, every image of the record has a
\* link in screenshotUrls: the asset url of its upload, or, its upload having
\* failed, its source url.
C14_EveryImageLinked ==
    pc = "prepare" =>
       \A k \in DOMAIN feedback.images : LinksOf(k) # {}

\* the pass of the upload loop over an image with cachedData
CachedPass ==
    /\ pc = "upload"
    /\ imgIdx' = imgIdx + 1
    /\ feedback.images[imgIdx].cached

\* C15: for an image with cachedData the pass of the upload loop issues no
\* GET, and hands the cached bytes to sdk.fileUpload whether or not expiresAt
\* has passed.
C15_Step ==
    CachedPass =>
       /\ "GET" \notin lastPass'.calls
       /\ "fileUpload" \in lastPass'.calls
       /\ lastPass'.data = "cachedData"

C15_CachedNeverDownloaded == [][C15_Step]_vars

C15_Witness ==
    /\ pc = "upload"
    /\ imgIdx > 1
    /\ feedback.images[imgIdx - 1].cached
    /\ feedback.images[imgIdx - 1].expired
    /\ lastPass.data = "cachedData"
    /\ "PUT" \in lastPass.calls
    /\ results.uploaded > 0

\* the attempt dispatches its request and handles the outcome
FetchStep == dispatches' = dispatches + 1

\* a 4xx status other than 429
ClientError(status) == status >= 400 /\ status < 500 /\ status # 429

\* C16: a response with status 401, 403 or any other 4xx except 429 ends the
\* request in the step that received it: the attempt has dispatched once, no
\* backoff sleep is added, the error of the attempt is thrown to the caller,
\* and no dispatch or sleep follows.
C16_Step ==
    FetchStep /\ ClientError(response'.status) =>
       /\ apiPc' = "done"
       /\ apiResult' = [kind |-> "error", message |-> lastError']
       /\ apiSleeps' = apiSleeps
       /\ now' = now

C16_After ==
    ClientError(response.status) =>
       /\ apiPc = "done"
       /\ apiResult.kind = "error"
       /\ Len(apiSleeps) = apiAttempt
       /\ dispatches <= apiAttempt + 1

C16_ClientErrorEndsRequest == [][C16_Step]_vars /\ []C16_After

C16_Witness ==
    /\ response.status = 404
    /\ apiPc = "done"
    /\ apiAttempt = 1
    /\ dispatches = 2
    /\ apiResult.kind = "error"

\* a status that isRetryableError classifies as retryable whatever the message
RetryableStatus(status) == status = 429 \/ status >= 500

\* C17: every response with status 429 or >= 500 that arrives while attempts
\* remain is followed by a backoff sleep and another attempt, whatever the
\* text of the error message in its body.
C17_Step ==
    /\ FetchStep
    /\ RetryableStatus(response'.status)
    /\ apiAttempt < apiOptions.retries
    => /\ IsRetryableError(response'.status, response'.body.errors)
       /\ apiPc' = "wait"
       /\ apiAttempt' = apiAttempt + 1
       /\ Len(apiSleeps') = Len(apiSleeps) + 1

C17_RetryableStatusRetried == [][C17_Step]_vars

\* the request has thrown its final error
Exhausted ==
    /\ apiPc = "done"
    /\ apiResult.kind = "error"
    /\ apiResult.message =
          FinalErrorText(apiOptions.retries, lastError, lastStatusCode)

\* each attempt of the request was dispatched and answered with 503
AllUnavailable ==
    /\ dispatches = apiAttempt + 1
    /\ unavailable = dispatches

\* C18: a request never dispatches more often than its `retries` option
\* says, and one whose every attempt is answered with 503 has dispatched
\* exactly that often when it throws its final error.
C18_DispatchesWithinRetries ==
    /\ dispatches <= apiOptions.retries
    /\ Exhausted /\ AllUnavailable => dispatches = apiOptions.retries

\* the k-th backoff sleep of the request follows the failed attempt k - 1
SleepInRange(k) ==
    LET base == apiOptions.retryDelay * Pow(2, k - 1)
    IN  /\ base <= apiSleeps[k]
        /\ 10 * apiSleeps[k] <= 11 * base

\* C19: the sleep after the failed attempt with zero-based index k is at
\* least retryDelay * 2^k and at most 10% more, successive sleeps of one
\* request are strictly increasing, and the last attempt is followed by no
\* sleep: the attempt with index `retries` leaves the sleeps as they are.
C19_State ==
    /\ \A k \in 1..Len(apiSleeps) : SleepInRange(k)
    /\ \A k \in 1..(Len(apiSleeps) - 1) : apiSleeps[k] < apiSleeps[k + 1]
    /\ Len(apiSleeps) = apiAttempt
    /\ apiAttempt <= apiOptions.retries

C19_Step == apiAttempt = apiOptions.retries => apiSleeps' = apiSleeps

C19_BackoffSleeps == []C19_State /\ [][C19_Step]_vars

C19_Witness ==
    /\ Exhausted
    /\ apiOptions.retries = defaultRetries
    /\ Len(apiSleeps) = defaultRetries
    /\ apiSleeps[1] > apiOptions.retryDelay
    /\ apiSleeps[2] = 2 * apiOptions.retryDelay
    /\ dispatches = defaultRetries + 1

\* the snapshot asks for a wait at this moment
RateLimited ==
    /\ rateLimitInfo.set
    /\ rateLimitInfo.remaining <= RateLimitFloor
    /\ now < rateLimitInfo.reset

\* C20: before each dispatch the request consults the snapshot, and when the
\* remaining count is 5 or less and the reset lies ahead it sleeps until the
\* reset; no request is dispatched at a moment when the snapshot shows
\* remaining <= 5 and now < reset.
C20_WaitStep ==
    apiPc = "wait" /\ RateLimited =>
       /\ now' = rateLimitInfo.reset
       /\ rateWaits' = rateWaits + 1

C20_DispatchStep == FetchStep => ~RateLimited

C20_NoDispatchWhileLimited ==
    /\ [][C20_WaitStep]_vars
    /\ [][C20_DispatchStep]_vars
    /\ [](apiPc \in {"token", "fetch"} => ~RateLimited)

C20_Witness ==
    /\ rateWaits = 2
    /\ dispatches = 2
    /\ rateLimitInfo.remaining = RateLimitFloor
    /\ now >= rateLimitInfo.reset

\* C25: with app id and bundle id both configured, when the app that
\* findAppByBundleId found has another id than the configured one,
\* resolveAppId returns the found app's id, never the configured one, and
\* asks for nothing more; with neither configured the call throws without
\* having made a request.
C25_ResolveAppId ==
    /\ appId # "" /\ bundleId # "" /\ appFromBundleId # NoApp
       /\ appFromBundleId.id # appId
       => /\ resolvedAppId = appFromBundleId.id
          /\ resolvedAppId # appId
          /\ fbResult.kind # "threw"
          /\ \A k \in DOMAIN apiRequests : apiRequests[k] # "apps/id"
    /\ appId = "" /\ bundleId = "" /\ fbPc # "idle"
       => /\ fbResult.kind = "threw"
          /\ fbResult.error = "config"
          /\ resolvedAppId = ""
          /\ apiRequests = <<>>

C25_Witness ==
    /\ appId = "A1"
    /\ bundleId = "b1"
    /\ appFromBundleId = [id |-> "A2", bundleId |-> "b1"]
    /\ resolvedAppId = "A2"
    /\ apiRequests = <<"apps?filter", "apps">>

\* the list items of the account, and the one a record was made from
ListItems ==
    {crashItems[i] : i \in DOMAIN crashItems}
    \cup {shotItems[i] : i \in DOMAIN shotItems}

ItemOf(record) == CHOOSE item \in ListItems : item.id = record.id

\* the item carries a date: a createdDate or submittedAt that parses
UsableDate(item) ==
    item.createdDate.kind = "iso" \/ item.submittedAt.kind = "iso"

\* the call has returned its records
Returned == fbResult.kind = "returned"

\* C21: every record that getEnhancedRecentFeedback returns has a
\* submittedAt >= since, comes from a list item that carries a usable date,
\* and its submittedAt is the date the filter compared with since.
C21_OnlySince ==
    Returned =>
       \A k \in DOMAIN fbResult.records :
          LET record == fbResult.records[k]
          IN  /\ DateGE(record.submittedAt, since)
              /\ UsableDate(ItemOf(record))
              /\ FilterDate(ItemOf(record)) = record.submittedAt

\* the positions of the returned list that hold a record of this id
RecordsOf(id) == {k \in DOMAIN fbResult.records : fbResult.records[k].id = id}

\* C22: the returned list holds exactly one record for every crash and
\* screenshot list item that passed the date filter, and nothing else,
\* whether the detail fetch, the crash-log fetch and the image downloads of
\* the item succeeded or failed.
C22_OneRecordPerItem ==
    Returned =>
       /\ \A i \in DOMAIN crashes : Cardinality(RecordsOf(crashes[i].id)) = 1
       /\ \A i \in DOMAIN screenshots :
             Cardinality(RecordsOf(screenshots[i].id)) = 1
       /\ Len(fbResult.records) = Len(crashes) + Len(screenshots)
       /\ crashes = SelectItems(crashItems, since)
       /\ screenshots = SelectItems(shotItems, since)

C22_Witness ==
    /\ Returned
    /\ Len(fbResult.records) = MaxCrashes + MaxShots
    /\ \E k \in DOMAIN fbResult.records :
          /\ fbResult.records[k].type = "crash"
          /\ ~fbResult.records[k].detailed
          /\ ~fbResult.records[k].logs
    /\ \E k \in DOMAIN fbResult.records :
          /\ fbResult.records[k].type = "screenshot"
          /\ fbResult.records[k].images # <<>>
          /\ ~fbResult.records[k].images[1].cachedData.set
    /\ \E k \in DOMAIN fbResult.records :
          /\ fbResult.records[k].type = "screenshot"
          /\ ~fbResult.records[k].detailed

\* the call has issued a request for one item: a detail or crash-log
\* request, or it is at the images of an item
PerItemRequests ==
    {k \in DOMAIN apiRequests :
        apiRequests[k] \in {"crashDetail", "crashLog", "shotDetail"}}

Enriching ==
    \/ PerItemRequests # {}
    \/ fbPc \in {"crashDetail", "crashLog", "shotDetail", "download"}
    \/ processedData # <<>>

\* C23: no per-item detail, crash-log or image request is issued before both
\* list fetches are done, whichever is done first; when either list fetch has
\* failed the call issues no per-item request, returns no record, and ends
\* by throwing.
C23_State ==
    /\ Enriching => crashFetch = "done" /\ shotFetch = "done"
    /\ crashFetch = "failed" \/ shotFetch = "failed" =>
          /\ ~Enriching
          /\ ~Returned
          /\ fbPc \in {"await", "done"}
          /\ fbPc = "done" => fbResult.kind = "threw"

\* a per-item request is never issued in a step that leaves a list fetch
\* unfinished
C23_Step ==
    Len(apiRequests') > Len(apiRequests) /\ fbPc \notin {"idle", "filtered", "manual", "getById", "lists"}
    => crashFetch = "done" /\ shotFetch = "done"

C23_ListsBeforeEnrichment == []C23_State /\ [][C23_Step]_vars

C23_Witness ==
    /\ crashFetch = "done"
    /\ shotFetch = "done"
    /\ PerItemRequests # {}
    /\ fbPc = "download"
    /\ dlRequests = 1

\* C24: the returned list is sorted by submittedAt descending across crash
\* and screenshot records: of two adjacent records the earlier one has a
\* submittedAt at or after that of the later one.
C24_SortedDescending ==
    Returned =>
       \A k \in 1..(Len(fbResult.records) - 1) :
          DateGE(fbResult.records[k].submittedAt,
                 fbResult.records[k + 1].submittedAt)

C24_Witness ==
    /\ Returned
    /\ Len(fbResult.records) = 3
    /\ fbResult.records[1].type = "screenshot"
    /\ fbResult.records[2].type = "crash"
    /\ fbResult.records[3].type = "screenshot"
    /\ fbResult.records[1].id = "s2"
    /\ fbResult.records[1].submittedAt.time > fbResult.records[2].submittedAt.time
    /\ fbResult.records[2].submittedAt.time > fbResult.records[3].submittedAt.time

\* downloadSingleScreenshotImage is called for the image at imageIdx
CallStep == fbPc = "download" /\ dlAttempt = 0 /\ dlRequests' = 0

\* the image at imageIdx of the record in hand, after the step
ImageAfter ==
    IF imageIdx < Len(current.images)
    THEN current'.images[imageIdx]
    ELSE processedData'[Len(processedData')].images[imageIdx]

\* after the step the acquisition is at the next image, or the record is
\* pushed with all its images
Continues ==
    IF imageIdx < Len(current.images)
    THEN /\ fbPc' = "download"
         /\ imageIdx' = imageIdx + 1
         /\ dlAttempt' = 0
         /\ Len(current'.images) = Len(current.images)
    ELSE /\ Len(processedData') = Len(processedData) + 1
         /\ processedData'[Len(processedData')].id = current.id
         /\ Len(processedData'[Len(processedData')].images) = Len(current.images)

\* C26: a call of downloadSingleScreenshotImage for an image whose expiresAt
\* is at or before the time of the call, the very moment included, makes no
\* download request and returns null; cachedData of the image stays unset
\* and the acquisition goes on with the next image.
C26_Step ==
    /\ CallStep
    /\ current.images[imageIdx].expiresAt.valid
    /\ current.images[imageIdx].expiresAt.time <= now
    => /\ dlResult' = "null"
       /\ dlRequests' = 0
       /\ dlAttempt' = 0
       /\ ~ImageAfter.cachedData.set
       /\ Continues

C26_ExpiredNotDownloaded == [][C26_Step]_vars

C26_Witness ==
    /\ fbPc = "download"
    /\ imageIdx = 2
    /\ dlAttempt = 0
    /\ dlResult = "null"
    /\ dlRequests = 0
    /\ current.images[1].expiresAt = Date(now)
    /\ ~current.images[1].cachedData.set

\* every request of the download in hand was answered with a 5xx status
AllServerErrors == \A k \in 1..Len(dlStatuses) : dlStatuses[k] >= 500

\* the download in hand has returned
DownloadReturned == dlAttempt = 0 /\ dlResult # "none"

ClientStatus(status) == status >= 400 /\ status < 500

\* C28: a download request answered with a 4xx status ends the download:
\* that answer is the last of the download, it was asked for once, no
\* backoff sleep follows it (the sleeps are one fewer than the requests, each
\* behind an earlier request), no further attempt is under way and the
\* result is null.
C28_ClientStatusAborts ==
    \A k \in 1..Len(dlStatuses) :
       ClientStatus(dlStatuses[k])
       => /\ k = Len(dlStatuses)
          /\ dlRequests = k
          /\ Len(dlSleeps) = k - 1
          /\ dlAttempt = 0
          /\ dlResult = "null"

C28_Witness ==
    /\ dlStatuses = <<404>>
    /\ dlRequests = 1
    /\ dlSleeps = <<>>
    /\ dlAttempt = 0
    /\ dlResult = "null"
    /\ fbPc = "download"
    /\ imageIdx = 2
    /\ ~current.images[1].cachedData.set

\* a step of the acquisition loop on the record in hand
AcquisitionStep == fbPc = "download"

\* the images of that record after the step: still in hand, or pushed
ImagesAfter ==
    IF fbPc' = "download" /\ Len(processedData') = Len(processedData)
    THEN current'.images
    ELSE processedData'[Len(processedData')].images

\* the step made a download request and the request succeeded
DownloadSucceeded ==
    /\ dlRequests' = dlRequests + 1
    /\ dlStatuses'[Len(dlStatuses')] = 200

\* C29: a step of the acquisition keeps the images of the record, in their
\* order, with their url, fileName, fileSize and expiresAt; cachedData
\* changes for the image being acquired only, and it is set exactly when the
\* download request of the step succeeded, whatever the byte count; an image
\* whose download has failed stays in the list with cachedData unset.
C29_Step ==
    AcquisitionStep
    => /\ Len(ImagesAfter) = Len(current.images)
       /\ \A j \in 1..Len(current.images) :
             /\ ImagesAfter[j].url = current.images[j].url
             /\ ImagesAfter[j].fileName = current.images[j].fileName
             /\ ImagesAfter[j].fileSize = current.images[j].fileSize
             /\ ImagesAfter[j].expiresAt = current.images[j].expiresAt
             /\ j # imageIdx => ImagesAfter[j].cachedData = current.images[j].cachedData
       /\ ~current.images[imageIdx].cachedData.set
       /\ ImagesAfter[imageIdx].cachedData.set <=> DownloadSucceeded

C29_OnlyCachedData == [][C29_Step]_vars

\* a record is pushed with two images: the first failed and is unset, the
\* second holds bytes of a count that differs from its declared fileSize
C29_Witness ==
    /\ processedData # <<>>
    /\ LET images == processedData[Len(processedData)].images
       IN  /\ Len(images) = 2
           /\ ~images[1].cachedData.set
           /\ images[2].cachedData.set
           /\ images[2].fileSize > 0
           /\ images[2].cachedData.length # images[2].fileSize
    /\ dlResult = "data"

\* the number of requests to the endpoint among the requests made
RequestsTo(endpoint) ==
    Cardinality({k \in 1..Len(apiRequests) : apiRequests[k] = endpoint})

\* while the images of an item are acquired, the latest request to the API
\* is the detail fetch of that item
C30_State ==
    fbPc = "download"
    => /\ apiRequests # <<>>
       /\ apiRequests[Len(apiRequests)] = "shotDetail"
       /\ RequestsTo("shotDetail") = itemIdx
       /\ current.id = screenshots[itemIdx].id

\* the step of the detail fetch of an item is followed at once by the
\* acquisition of the images of the item, at the first of them, unless the
\* record has no image; a step of the acquisition makes no request to the
\* API, no rate-limit wait and no backoff of an API retry, and the only time
\* that passes is a backoff of the download itself
C30_Step ==
    /\ fbPc = "shotDetail"
       => \/ /\ fbPc' = "download"
             /\ itemIdx' = itemIdx
             /\ imageIdx' = 1
             /\ dlAttempt' = 0
             /\ current'.id = current.id
             /\ current'.images # <<>>
          \/ /\ Len(processedData') = Len(processedData) + 1
             /\ processedData'[Len(processedData')].id = current.id
             /\ processedData'[Len(processedData')].images = <<>>
          \/ UNCHANGED vars
    /\ fbPc = "download"
       => /\ apiRequests' = apiRequests
          /\ UNCHANGED <<dispatches, rateWaits, apiSleeps>>
          /\ \/ now' = now
             \/ /\ Len(dlSleeps') = Len(dlSleeps) + 1
                /\ now' = now + dlSleeps'[Len(dlSleeps')]

\* C30: for each screenshot item the acquisition of its images runs
\* immediately after the detail fetch of the item: from the completion of
\* the detail fetch to the download attempts of the images of the item no
\* other request to the API is made and no rate-limit wait or backoff of an
\* API retry takes place.
C30_AcquisitionAfterDetail == []C30_State /\ [][C30_Step]_vars

\* a download request was made for an image of the first screenshot while
\* the second one still waits for its detail fetch
C30_Witness ==
    /\ fbPc = "download"
    /\ Len(screenshots) = 2
    /\ itemIdx = 1
    /\ dlRequests >= 1
    /\ RequestsTo("shotDetail") = 1
    /\ apiRequests[Len(apiRequests)] = "shotDetail"

\* C31: after every response that makeApiRequest receives, whatever its
\* status, the rate-limit snapshot holds the values of the X-RateLimit
\* headers the response carries: the remaining count, the reset (seconds, as
\* a time in ms) and the limit.
C31_SnapshotEqualsHeaders ==
    response # NoResponse
    => /\ response.rate.remaining # NullHeader
          => rateLimitInfo.set /\ rateLimitInfo.remaining = response.rate.remaining
       /\ response.rate.reset # NullHeader
          => rateLimitInfo.set /\ rateLimitInfo.reset = response.rate.reset * 1000
       /\ response.rate.limit # NullHeader
          => rateLimitInfo.set /\ rateLimitInfo.limit = response.rate.limit

\* C32: the error that makeApiRequest throws when its attempts are used up
\* reports the number of attempts made and the message and HTTP status of
\* the last failed attempt; when the last dispatch failed without a
\* response (timeout, network error) the error carries no status, not that
\* of an earlier attempt.
C32_FinalErrorOfLastAttempt ==
    Exhausted
    => /\ apiAttempt = apiOptions.retries
       /\ response # NoResponse
          => apiResult.message =
                FinalErrorText(apiOptions.retries, lastError, response.status)
       /\ response = NoResponse
          => apiResult.message =
                FinalErrorText(apiOptions.retries, lastError, 0)

\* the invocation has created an issue in the tracker
CreatedByInvocation ==
    \E i \in 1..Len(store) : store[i].origin = calls

\* C35: once findDuplicateIssue has returned an existing issue, the
\* invocation only comments: it issues no createIssue call and creates no
\* issue, and when the comment fails (createComment throws, reports failure
\* or gives no comment, or the conversion that follows fails) it ends FAILED
\* and returns nothing.
C35_CommentFailureFailsClosed ==
    dupResult = "issue" =>
       /\ pc \in {"comment", "done"}
       /\ "createIssue" \notin sdk
       /\ ~CreatedByInvocation
       /\ pc = "done" =>
             /\ "createComment" \in sdk
             /\ outcome \in {"COMMENTED", "FAILED"}
             /\ outcome = "FAILED" => returned = 0 /\ thrown # <<>>

C35_Witness ==
    /\ dupResult = "issue"
    /\ pc = "done"
    /\ outcome = "FAILED"
    /\ <<hit, calls>> \notin comments
    /\ "createComment" \in sdk
    /\ "createIssue" \notin sdk

\* the comment was stored and the conversion after it failed
C35_WitnessConversion ==
    /\ dupResult = "issue"
    /\ pc = "done"
    /\ outcome = "FAILED"
    /\ <<hit, calls>> \in comments

\* C36: when the invocation has ended FAILED, the tracker holds no issue
\* that this invocation created.
C36_FailedCreatesNothing ==
    (pc = "done" /\ outcome = "FAILED") => ~CreatedByInvocation

\* C37: no download request is made for an image at a time at or after the
\* expiresAt of the image, in any attempt of the retry loop.
C37_Step ==
    /\ fbPc = "download"
    /\ dlRequests' = dlRequests + 1
    /\ current.images[imageIdx].expiresAt.valid
    => now < current.images[imageIdx].expiresAt.time

C37_NoRequestAfterExpiry == [][C37_Step]_vars

\* C38: the link list handed to the description holds at most one link for
\* each image of the record: its links are no more than the images, and an
\* image whose upload succeeded has its asset url and not its source url
\* besides.
C38_AtMostOneLinkPerImage ==
    pc = "prepare" =>
       /\ Len(screenshotUrls) <= Len(feedback.images)
       /\ \A k \in DOMAIN feedback.images :
             (\E j \in DOMAIN screenshotUrls : screenshotUrls[j].url = <<"asset", k>>)
             => ~\E j \in DOMAIN screenshotUrls : screenshotUrls[j].url = <<"apple", k>>

\* C39: resolveLabelNamesToIds puts no id into its list twice, and never the
\* id of a label of the tracker that is a known group label or has child
\* labels.
C39_Step ==
    /\ pc = "resolveName"
    /\ Len(resolvedIds') = Len(resolvedIds) + 1
    => LET id == resolvedIds'[Len(resolvedIds')]
       IN  /\ \A k \in DOMAIN resolvedIds : resolvedIds[k] # id
           /\ id \in DOMAIN labelStore
              => /\ LowerName(labelStore[id].name) \notin knownGroupLabels
                 /\ ~labelStore[id].children

C39_NoGroupLabelIds == [][C39_Step]_vars

\* the dispatches and the rate-limit waits of a request stay within its
\* attempts, of which there are at most retries + 1
C40_State ==
    apiPc # "idle" =>
       /\ apiAttempt <= apiOptions.retries
       /\ dispatches <= apiAttempt + 1
       /\ dispatches <= apiOptions.retries + 1
       /\ rateWaits <= apiAttempt + 1

\* waitForRateLimit does not sleep when the reset of the snapshot is not
\* ahead, and when it sleeps it sleeps until the recorded reset and no
\* longer, however old the snapshot is
C40_WaitStep ==
    apiPc = "wait" =>
       /\ (~rateLimitInfo.set \/ rateLimitInfo.reset <= now) => now' = now
       /\ now' = now \/ now' = rateLimitInfo.reset
       /\ rateWaits' <= rateWaits + 1

\* C40: makeApiRequest terminates: it makes at most retries + 1 dispatches
\* and at most one rate-limit wait for each attempt, waitForRateLimit never
\* sleeps when the reset of the snapshot is not in the future, a stale
\* snapshot holds a request back no longer than until its recorded reset,
\* and the request ends with data or with an error.
C40_Terminates ==
    /\ []C40_State
    /\ [][C40_WaitStep]_vars
    /\ <>(apiPc = "done" /\ apiResult.kind \in {"data", "error"})

\* the request went through a wait behind a snapshot that a response without
\* rate-limit headers had left as it was, and a wait that did not sleep at a
\* reset that had passed
C40_Witness ==
    /\ apiPc = "done"
    /\ dispatches = apiOptions.retries + 1
    /\ dispatches >= 2
    /\ rateWaits = 1
    /\ rateLimitInfo.set
    /\ rateLimitInfo.reset <= now
    /\ response # NoResponse
    /\ response.rate = NoHeaders

----------------------------------------------------------------------------
(* LinearClient.getTeam and the instance of getLinearClient *)

\* getTeam calls on one instance
MaxGets == 3
\* instances constructed, the first included
MaxClients == 2

\* the team as the tracker can hold it: as configured, or edited since
TeamInfos == {TeamId, "T edited"}

\* the methods that call getTeam
TeamCallers ==
    {"getTeam", "addCommentToIssue", "healthCheck", "convertToLinearIssue",
     "convertToLinearIssueStatus", "convertToLinearIssueLabel"}

\* a getTeam that never takes the cache
TeamCachedNever(cache) == FALSE

\* if (this.teamCache)
TeamCached(cache) == cache # "null"

\* getTeam, called by one of the methods: the cache if it is populated, else
\* sdk.team and convertToLinearTeam, either of which may throw
GetTeam ==
    /\ teamGets < MaxGets
    /\ teamGets' = teamGets + 1
    /\ \E via \in TeamCallers : teamVia' = via
    /\ IF TeamCached(teamCache)
       THEN /\ teamGot' = teamCache
            /\ UNCHANGED <<teamCache, teamCalls, firstTeam>>
       ELSE /\ teamCalls' = teamCalls + 1
            /\ \/ /\ teamCache' = remoteTeam
                  /\ teamGot' = remoteTeam
                  /\ firstTeam' = IF firstTeam = "null" THEN remoteTeam
                                                       ELSE firstTeam
               \/ /\ teamGot' = "error"
                  /\ UNCHANGED <<teamCache, firstTeam>>
    /\ UNCHANGED <<remoteTeam, clients>>
    /\ UNCHANGED <<invocationVars, apiVars, fbVars, branchVars>>

\* somebody edits the team in the tracker
EditTeam ==
    /\ \E t \in TeamInfos \ {remoteTeam} : remoteTeam' = t
    /\ UNCHANGED <<teamCache, clients, teamGets, teamCalls, teamVia, teamGot,
                   firstTeam>>
    /\ UNCHANGED <<invocationVars, apiVars, fbVars, branchVars>>

\* clearLinearClientInstance, then getLinearClient: a new LinearClient, whose
\* teamCache is null
NewClient ==
    /\ clients < MaxClients
    /\ clients' = clients + 1
    /\ teamCache' = "null"
    /\ teamGets' = 0
    /\ teamCalls' = 0
    /\ teamVia' = "none"
    /\ teamGot' = "none"
    /\ firstTeam' = "null"
    /\ UNCHANGED remoteTeam
    /\ UNCHANGED <<invocationVars, apiVars, fbVars, branchVars>>

TeamInit ==
    /\ IdleClient
    /\ calls = 0
    /\ IdleApi
    /\ IdleFeedback
    /\ IdleCallers

TeamNext ==
    \/ GetTeam
    \/ EditTeam
    \/ NewClient

TeamSpec == TeamInit /\ [][TeamNext]_vars

\* a step that is one getTeam call on the instance at hand
GetTeamStep == teamGets' = teamGets + 1

\* what every step of the instance keeps
C34_Step ==
    /\ (GetTeamStep /\ firstTeam # "null")
           => (teamCalls' = teamCalls /\ teamGot' = firstTeam)
    /\ (GetTeamStep /\ teamGot' = "error")
           => (teamCache = "null" /\ teamCache' = "null")
    /\ (GetTeamStep /\ teamCache = "null") => teamCalls' = teamCalls + 1
    /\ (teamCache # "null" /\ teamCache' # teamCache)
           => (clients' = clients + 1 /\ teamCache' = "null")

\* C34: with getTeam calls made one after another on one LinearClient, once a
\* getTeam has succeeded every later getTeam, direct or from a conversion,
\* returns the team of that first success and makes no team(id) call; a failed
\* getTeam leaves the cache empty and the next call queries again; a populated
\* cache changes only by becoming the empty cache of a newly constructed
\* client.
C34_TeamCachedOnce ==
    [][C34_Step]_vars

\* a first getTeam failed, the second succeeded, the team was edited in the
\* tracker, and a conversion then got the team of the second call
C34_Witness ==
    /\ teamGets = 3
    /\ teamCalls = 2
    /\ firstTeam # "null"
    /\ teamCache = firstTeam
    /\ teamGot = firstTeam
    /\ remoteTeam # firstTeam
    /\ teamVia # "getTeam"

----------------------------------------------------------------------------
(* getEnhancedRecentFeedback: the two list fetches of Promise.all, each a
   makeApiRequest, run on the one TestFlightClient; the retries and the delay
   are the shorter ones *)

\* the branches that sleep, in waitForRateLimit or between two attempts
Sleeping(b) == brPc[b] \in {"rateSleep", "backoff"}

\* Promise.all starts both list fetches
StartFanout ==
    /\ \A b \in Branches : brPc[b] = "idle"
    /\ brPc' = [b \in Branches |-> "wait"]
    /\ UNCHANGED <<now, rateLimitInfo, brAttempt, brWake, brStatus, brResult>>
    /\ UNCHANGED <<linearVars, requestVars, fbVars, teamVars>>

\* await this.waitForRateLimit() of branch b: it reads the snapshot of the
\* client and sleeps until the reset, or goes on at once
BranchWaitForRateLimit(b) ==
    /\ brPc[b] = "wait"
    /\ LET waitTime == RateLimitWait(rateLimitInfo, now)
       IN  IF waitTime > 0
           THEN /\ brPc' = [brPc EXCEPT ![b] = "rateSleep"]
                /\ brWake' = [brWake EXCEPT ![b] = now + waitTime]
           ELSE /\ brPc' = [brPc EXCEPT ![b] = "token"]
                /\ UNCHANGED brWake
    /\ UNCHANGED <<now, rateLimitInfo, brAttempt, brStatus, brResult>>
    /\ UNCHANGED <<linearVars, requestVars, fbVars, teamVars>>

\* the timer of a sleeping branch fires: after waitForRateLimit the attempt
\* goes on to the token, after the sleep of the catch the next attempt begins
BranchWake(b) ==
    /\ Sleeping(b)
    /\ brWake[b] <= now
    /\ brPc' = [brPc EXCEPT ![b] = IF brPc[b] = "rateSleep" THEN "token"
                                                            ELSE "wait"]
    /\ UNCHANGED <<now, rateLimitInfo, brAttempt, brWake, brStatus, brResult>>
    /\ UNCHANGED <<linearVars, requestVars, fbVars, teamVars>>

\* the clock reaches the next timer
Advance ==
    /\ \E b \in Branches : Sleeping(b) /\ brWake[b] > now
    /\ \A b \in Branches : Sleeping(b) => brWake[b] > now
    /\ \E b \in Branches :
          /\ Sleeping(b)
          /\ \A c \in Branches : Sleeping(c) => brWake[b] <= brWake[c]
          /\ now' = brWake[b]
    /\ UNCHANGED <<rateLimitInfo, branchVars>>
    /\ UNCHANGED <<linearVars, requestVars, fbVars, teamVars>>

\* the catch block of one attempt of branch b, lastStatusCode being code
BranchCatch(b, msg, code) ==
    IF AuthAbort(msg, code) \/ ClientAbort(code) \/ brAttempt[b] = ShortRetries
    THEN /\ brPc' = [brPc EXCEPT ![b] = "done"]
         /\ brResult' = [brResult EXCEPT ![b] = "error"]
         /\ UNCHANGED <<brAttempt, brWake>>
    ELSE \E delay \in Delays(BaseDelay(ShortRetryDelay, brAttempt[b])) :
            /\ brPc' = [brPc EXCEPT ![b] = "backoff"]
            /\ brWake' = [brWake EXCEPT ![b] = now + delay]
            /\ brAttempt' = [brAttempt EXCEPT ![b] = @ + 1]
            /\ UNCHANGED brResult

\* await authInstance.getValidToken() of branch b
BranchGetValidToken(b) ==
    /\ brPc[b] = "token"
    /\ \/ /\ brPc' = [brPc EXCEPT ![b] = "fetch"]
          /\ UNCHANGED <<brAttempt, brWake, brResult>>
       \/ \E msg \in TokenErrors : BranchCatch(b, msg, brStatus[b])
    /\ UNCHANGED <<now, rateLimitInfo, brStatus>>
    /\ UNCHANGED <<linearVars, requestVars, fbVars, teamVars>>

\* fetch(...) of branch b: the request is dispatched
BranchDispatch(b) ==
    /\ brPc[b] = "fetch"
    /\ brPc' = [brPc EXCEPT ![b] = "inflight"]
    /\ UNCHANGED <<now, rateLimitInfo, brAttempt, brWake, brStatus, brResult>>
    /\ UNCHANGED <<linearVars, requestVars, fbVars, teamVars>>

\* the fetch of branch b settles: it throws, or its response sets
\* lastStatusCode and the snapshot of the client, and is examined
BranchRespond(b) ==
    /\ brPc[b] = "inflight"
    /\ \/ /\ \E msg \in FetchErrors : BranchCatch(b, msg, brStatus[b])
          /\ UNCHANGED <<rateLimitInfo, brStatus>>
       \/ \E r \in Responses(now) :
             /\ brStatus' = [brStatus EXCEPT ![b] = r.status]
             /\ rateLimitInfo' = UpdateRateLimitInfo(rateLimitInfo, r.rate)
             /\ IF ~Ok(r.status)
                THEN IF r.body.kind = "text"
                     THEN BranchCatch(b, HttpErrorText(r.status), r.status)
                     ELSE BranchCatch(b, ApiErrorText(r.body.errors), r.status)
                ELSE IF r.body.kind = "text"
                THEN BranchCatch(b, JsonErrorText, r.status)
                ELSE /\ brPc' = [brPc EXCEPT ![b] = "done"]
                     /\ brResult' = [brResult EXCEPT ![b] = "data"]
                     /\ UNCHANGED <<brAttempt, brWake>>
    /\ UNCHANGED now
    /\ UNCHANGED <<linearVars, requestVars, fbVars, teamVars>>

\* a TestFlightClient that made earlier requests, the last of them just now
FanoutInit ==
    /\ IdleClient
    /\ calls = 0
    /\ now = 0
    /\ rateLimitInfo \in Snapshots(0)
    /\ IdleRequest
    /\ IdleFeedback
    /\ IdleCallers

FanoutNext ==
    \/ StartFanout
    \/ Advance
    \/ \E b \in Branches :
          \/ BranchWaitForRateLimit(b)
          \/ BranchWake(b)
          \/ BranchGetValidToken(b)
          \/ BranchDispatch(b)
          \/ BranchRespond(b)

FanoutSpec == FanoutInit /\ [][FanoutNext]_vars

\* a step in which a list fetch dispatches a request
DispatchStep ==
    \E b \in Branches : brPc[b] = "fetch" /\ brPc'[b] = "inflight"

\* C33: under every interleaving of the two list fetches no request of either
\* is dispatched at a moment when the snapshot shows remaining <= 5 with the
\* reset ahead.
C33_NoDispatchWhileLimited ==
    [][DispatchStep => ~RateLimited]_vars

====
